---------------------------- MODULE Spec2Model ----------------------------
(***************************************************************************)
(* Romi firmware (ME 405 term project): cooperative tasks under a          *)
(* priority scheduler, coordinated through Shares and Queues.              *)
(*                                                                         *)
(* Units used for the floating-point quantities of the source:            *)
(*   time            milliseconds (pyb.millis / ticks_ms)                  *)
(*   effort          whole percent                                         *)
(*   velocity        counts/s (encoder), rad/s (controller)                *)
(*   integrator      (rad/s) * ms                                          *)
(*   droop gain      tenths (13 is 1.3)                                    *)
(*   battery voltage tenths of a volt                                      *)
(* Float arithmetic is integer arithmetic truncated toward zero.           *)
(***************************************************************************)
EXTENDS Integers, Sequences, FiniteSets, TLC

VARIABLES
    now,        \* the millisecond clock (millis(), ticks_ms())
    sh,         \* the Shares, by the name main.py gives them
    motor,      \* Motor objects: "L", "R" -> [enabled, effort]
    enc,        \* Encoder objects: "L", "R" -> record (counter is the timer)
    turned,     \* true wheel displacement since the counter was last read
    ctl,        \* ClosedLoop objects: "L", "R" -> record
    bat,        \* Battery object: cached gain and voltage
    adc,        \* what the battery ADC reads now (tenths of a volt)
    mcState,    \* MotorControlTask.state
    t0,         \* MotorControlTask.t0
    spec,       \* SpectatorTask: state and count baselines
    dc,         \* DataCollectionTask: state and generator position
    queues,     \* the Queues of DataCollectionTask, by name
    qlog,       \* values put into and got from time_q since it was empty
    hist,       \* the last ClosedLoop.run call on the left controller
    steer,      \* SteeringTask: state
    ir,         \* what the IR array reads now: sum of readings and centroid
    ui,         \* UITask: state, cmd_buf and position inside the generator
    rx,         \* bytes received on the UART and not yet read
    tx,         \* what was written to the UART, oldest first
    stream,     \* StreamTask: state, sent_end, lines_sent
    pp,         \* PathPlanningTask: state and its bookkeeping fields
    latch,      \* what happened since the last kill command
    sim,        \* the two-task scheduler scenario: clock, pass, counter
    boot,       \* main() before the scheduler loop: position, files, calibration
    lastRun,    \* scheduler: task -> time of its last resumption
    passNow,    \* scheduler: the time read at the start of the pass
    passPos,    \* scheduler: 0 between passes, else index into SchedOrder
    resumed,    \* scheduler: the tasks resumed so far in this pass
    mainPc,     \* main(): "loop", "except", "raised", "exited"
    exc,        \* the exception in flight: "none", "kbd", "err"
    ev          \* the last operation performed and what it observed

vars == <<now, sh, motor, enc, turned, ctl, bat, adc, mcState, t0, spec, dc,
          queues, qlog, hist, steer, ir, ui, rx, tx, stream, pp, latch,
          sim, boot, lastRun, passNow, passPos, resumed, mainPc, exc, ev>>

\* the tasks around the motor loop, what they sense and the UART they share
SteerVars == <<steer, ir>>
UIVars == <<ui, rx>>
StreamVars == <<stream, tx>>
TaskVars == <<SteerVars, UIVars, StreamVars, pp, latch, sim, boot>>

Wheels == {"L", "R"}

(***************************************************************************)
(* Bounds of the model.                                                    *)
(***************************************************************************)
MaxCap == 3          \* largest Queue capacity explored
MaxLog == 6          \* longest log of puts kept for one Queue
MaxPos == 70000      \* |accumulated encoder position| explored

(***************************************************************************)
(* Arithmetic helpers.                                                     *)
(***************************************************************************)
Min(a, b) == IF a < b THEN a ELSE b
Max(a, b) == IF a > b THEN a ELSE b
Abs(a) == IF a < 0 THEN -a ELSE a
\* division truncated toward zero, as int() of a float quotient
TruncDiv(a, b) == IF a >= 0 THEN a \div b ELSE -((-a) \div b)


(***************************************************************************)
(* Motor (src/src/motor.py).  A motor is [enabled, effort].                *)
(***************************************************************************)
Motor_init == [enabled |-> FALSE, effort |-> 0]

\* mutant: the requested effort is stored as given
Motor_set_effort_NoClamp(m, effort) ==
    IF ~m.enabled THEN m
    ELSE [m EXCEPT !.effort = effort]

Motor_set_effort(m, effort) ==
    IF ~m.enabled THEN m
    ELSE [m EXCEPT !.effort = Max(Min(effort, 100), -100)]

\* mutant: enable() resets the effort also when the motor is already enabled
Motor_enable_Always(m) ==
    [enabled |-> TRUE, effort |-> 0]

Motor_enable(m) ==
    IF m.enabled THEN m ELSE [enabled |-> TRUE, effort |-> 0]

Motor_disable(m) ==
    IF ~m.enabled THEN m ELSE [enabled |-> FALSE, effort |-> 0]

(***************************************************************************)
(* Encoder (src/encoder.py).  counter is the 16-bit hardware timer the     *)
(* wheel drives; the rest are the object's fields.                         *)
(***************************************************************************)
AR == 65535

Encoder_init ==
    [counter |-> 0, position_counts |-> 0, prev_count |-> 0, delta |-> 0,
     prev_time |-> 0, dt |-> 0, velocity_counts_per_s |-> 0]

\* mutant: the correction made with the auto-reload value instead of the
\* counter's modulus
WrapDelta_OffByOne(curr_count, prev_count) ==
    LET delta == curr_count - prev_count
        half_range == (AR + 1) \div 2
    IN  IF delta < -half_range THEN delta + AR
        ELSE IF delta > half_range THEN delta - AR
        ELSE delta

\* lines 44-51 of update(): the wraparound correction
WrapDelta(curr_count, prev_count) ==
    LET delta == curr_count - prev_count
        half_range == (AR + 1) \div 2
    IN  IF delta < -half_range THEN delta + (AR + 1)
        ELSE IF delta > half_range THEN delta - (AR + 1)
        ELSE delta

\* update() at time t (ms); ticks_us is 1000 * t, so that delta*1e6 / dt is
\* delta * 1000 over the milliseconds elapsed
Encoder_update(e, t) ==
    LET delta == WrapDelta(e.counter, e.prev_count)
        dt == (t - e.prev_time) * 1000
    IN  [e EXCEPT !.position_counts = e.position_counts + delta,
                  !.dt = dt,
                  !.velocity_counts_per_s =
                      IF dt # 0 THEN TruncDiv(delta * 1000, t - e.prev_time)
                      ELSE 0,
                  !.delta = delta,
                  !.prev_count = e.counter,
                  !.prev_time = t]

Encoder_zero(e, t) ==
    [e EXCEPT !.position_counts = 0, !.prev_count = e.counter,
              !.prev_time = t]

(***************************************************************************)
(* Battery (src/battery_droop.py).  None is the Python None of the caches; *)
(* AdcFail is an ADC read that raises.  An operation returns the battery   *)
(* after the call, the value returned and whether it raised.               *)
(***************************************************************************)
None == 0 - 1
AdcFail == 0 - 1
VNomTotal == 78
VeryLowVolt == 5

Battery_init == [cached_gain |-> None, cached_voltage |-> None]

Battery_droop_gain(b, refresh, v) ==
    IF b.cached_gain # None \/ refresh
    THEN IF v = AdcFail
         THEN [bat |-> b, ret |-> None, raised |-> TRUE]
         ELSE LET g == IF v <= VeryLowVolt THEN 10
                       ELSE TruncDiv(VNomTotal * 10, v)
                  b1 == [cached_gain |-> g, cached_voltage |-> v]
              IN  [bat |-> b1, ret |-> g, raised |-> FALSE]
    ELSE [bat |-> b, ret |-> b.cached_gain, raised |-> FALSE]

Battery_refresh(b, v) ==
    Battery_droop_gain([b EXCEPT !.cached_gain = None], TRUE, v)

(***************************************************************************)
(* ClosedLoop (src/closed_loop.py).                                        *)
(***************************************************************************)
StallMs == 1000
cpr == 1440
TwoPiMilli == 6283
effort_min == 0 - 100
effort_max == 100

ClosedLoop_init ==
    [integrator |-> 0, last_time |-> 0, output |-> 0, last_output |-> 0]

ClosedLoop_reset(c, t) ==
    [c EXCEPT !.integrator = 0, !.output = 0, !.last_time = t]

\* fb *= 2*pi / cpr
FbToRad(fb) == TruncDiv(fb * TwoPiMilli, cpr * 1000)

\* mutant: the final clamp applied before the droop gain instead of after
ClampEffort_BeforeGain(u_milli, gain) ==
    TruncDiv(Max(Min(u_milli, effort_max * 1000), effort_min * 1000) * gain,
             10000)

\* lines 71-74: u *= gain, then clamp to [effort_min, effort_max]
ClampEffort(u_milli, gain) ==
    Max(Min(TruncDiv(u_milli * gain, 10000), effort_max), effort_min)

\* mutant: no stall guard, every call computes a fresh PI step
Stalled_Never(dt_ms) == FALSE

\* line 41: the task was paused too long
Stalled(dt_ms) == dt_ms > StallMs

\* run(fb) at time t with the Shares' values sp, kp, ki, battery b and ADC
\* reading v.  raised: u *= gain with gain None is a TypeError, and a failed
\* ADC read propagates; both happen after lines 46 and 54 took effect.
ClosedLoop_run(c, fb, sp, kp, ki, b, v, t) ==
    LET dt_ms == t - c.last_time
    IN  IF Stalled(dt_ms)
        THEN [ctl |-> [c EXCEPT !.last_time = t], bat |-> b,
              ret |-> c.last_output, raised |-> FALSE, held |-> TRUE]
        ELSE LET error == sp - FbToRad(fb)
                 integ == c.integrator + error * dt_ms
                 u == kp * error * 1000 + ki * integ
                 dg == Battery_droop_gain(b, FALSE, v)
                 c1 == [c EXCEPT !.last_time = t, !.integrator = integ]
             IN  IF dg.raised \/ dg.ret = None
                 THEN [ctl |-> c1, bat |-> dg.bat, ret |-> 0,
                       raised |-> TRUE, held |-> FALSE]
                 ELSE LET out == ClampEffort(u, dg.ret)
                      IN  [ctl |-> [c1 EXCEPT !.output = out,
                                              !.last_output = out],
                           bat |-> dg.bat, ret |-> out,
                           raised |-> FALSE, held |-> FALSE]

(***************************************************************************)
(* MotorControlTask (src/src/motor_task.py, the version main.py wires up). *)
(* A pass through the FSM dispatch maps the bundle                         *)
(*   [state, motor, enc, ctl, bat, sh, t0, passes, cont, raised]           *)
(* of everything the task touches to the bundle after the pass; cont says  *)
(* the pass ended in "continue" (no yield), raised that it ended in an     *)
(* exception.  t is millis(), v what the battery ADC reads.                *)
(***************************************************************************)
S0_INIT == 0
S1_WAIT_FOR_ENABLE == 1
S2_RUN == 2
RATIO10 == 6

\* _split_setpoints: (left, right) for a driving mode and a setpoint
split_setpoints(driving_mode_val, setpoint) ==
    IF driving_mode_val = 0 THEN <<setpoint, setpoint>>
    ELSE IF driving_mode_val = 1 THEN <<setpoint, -setpoint>>
    ELSE <<setpoint, TruncDiv(setpoint * RATIO10, 10)>>

\* mutant: INIT that leaves the enable Share as it finds it
Motor_S0_KeepsEnable(m, t) ==
    [m EXCEPT
       !.enc = [w \in Wheels |-> Encoder_zero(m.enc[w], t)],
       !.motor = [w \in Wheels |-> Motor_disable(m.motor[w])],
       !.sh = [m.sh EXCEPT !.eff = 0, !.run_observer = 0,
                           !.driving_mode = 0, !.control_mode = 0],
       !.ctl = [w \in Wheels |-> ClosedLoop_reset(m.ctl[w], t)],
       !.state = S1_WAIT_FOR_ENABLE]

\* lines 124-144
Motor_S0(m, t) ==
    [m EXCEPT
       !.enc = [w \in Wheels |-> Encoder_zero(m.enc[w], t)],
       !.motor = [w \in Wheels |-> Motor_disable(m.motor[w])],
       !.sh = [m.sh EXCEPT !.eff = 0, !.mtr_enable = 0, !.run_observer = 0,
                           !.driving_mode = 0, !.control_mode = 0],
       !.ctl = [w \in Wheels |-> ClosedLoop_reset(m.ctl[w], t)],
       !.state = S1_WAIT_FOR_ENABLE]

\* mutant: a failed battery refresh keeps the task waiting
Motor_S1_NeedsBattery(m, t, v) ==
    IF m.sh.mtr_enable # 0 /\ ~Battery_refresh(m.bat, v).raised
    THEN [m EXCEPT
            !.bat = Battery_refresh(m.bat, v).bat,
            !.enc = [w \in Wheels |-> Encoder_zero(m.enc[w], t)],
            !.t0 = t,
            !.sh = [m.sh EXCEPT !.start_time = t, !.run_observer = 1],
            !.motor = [w \in Wheels |-> Motor_enable(m.motor[w])],
            !.state = S2_RUN]
    ELSE m

\* lines 147-173; a failed battery refresh is caught and printed
Motor_S1(m, t, v) ==
    IF m.sh.mtr_enable # 0
    THEN [m EXCEPT
            !.bat = Battery_refresh(m.bat, v).bat,
            !.enc = [w \in Wheels |-> Encoder_zero(m.enc[w], t)],
            !.t0 = t,
            !.sh = [m.sh EXCEPT !.start_time = t, !.run_observer = 1],
            !.motor = [w \in Wheels |-> Motor_enable(m.motor[w])],
            !.state = S2_RUN]
    ELSE m

\* mutant: the abort branch forgets the right motor
Motor_S2_abort_LeftOnly(m, t) ==
    [m EXCEPT
       !.motor = [m.motor EXCEPT !["L"] = Motor_disable(m.motor["L"])],
       !.ctl = [w \in Wheels |-> ClosedLoop_reset(m.ctl[w], t)],
       !.sh = [m.sh EXCEPT !.run_observer = 0, !.mtr_enable = 0],
       !.state = S1_WAIT_FOR_ENABLE,
       !.cont = TRUE]

\* mutant: the abort branch also asserts the motor-data-ready flag
Motor_S2_abort_DataReady(m, t) ==
    [m EXCEPT
       !.motor = [w \in Wheels |-> Motor_disable(m.motor[w])],
       !.ctl = [w \in Wheels |-> ClosedLoop_reset(m.ctl[w], t)],
       !.sh = [m.sh EXCEPT !.run_observer = 0, !.mtr_enable = 0,
                           !.motor_data_ready = 1],
       !.state = S1_WAIT_FOR_ENABLE,
       !.cont = TRUE]

\* lines 178-187: the abort branch of RUN, ending in "continue"
Motor_S2_abort(m, t) ==
    [m EXCEPT
       !.motor = [w \in Wheels |-> Motor_disable(m.motor[w])],
       !.ctl = [w \in Wheels |-> ClosedLoop_reset(m.ctl[w], t)],
       !.sh = [m.sh EXCEPT !.run_observer = 0, !.mtr_enable = 0],
       !.state = S1_WAIT_FOR_ENABLE,
       !.cont = TRUE]

\* mutant: only the left per-wheel setpoint is written in velocity mode
apply_user_setpoint_LeftOnly(s) ==
    IF s.control_mode = 1
    THEN [s EXCEPT !.left_sp_sh = s.setpoint]
    ELSE s

\* mutant: the user setpoint is applied in every closed-loop mode
apply_user_setpoint_AnyClosedLoop(s) ==
    IF s.control_mode # 0
    THEN [s EXCEPT !.left_sp_sh = s.setpoint, !.right_sp_sh = s.setpoint]
    ELSE s

\* lines 215-217: in velocity mode the user setpoint goes into both per-wheel
\* setpoint Shares
apply_user_setpoint(s) ==
    IF s.control_mode = 1
    THEN [s EXCEPT !.left_sp_sh = s.setpoint, !.right_sp_sh = s.setpoint]
    ELSE s

\* lines 189-240: the normal RUN body
Motor_S2_body(m, t, v) ==
    LET enc1 == [w \in Wheels |-> Encoder_update(m.enc[w], t)]
        tm == t - m.t0
        left_pos == enc1["L"].position_counts
        right_pos == enc1["R"].position_counts
        left_vel_fb == enc1["L"].velocity_counts_per_s
        right_vel_fb == enc1["R"].velocity_counts_per_s
        mode == m.sh.control_mode
        sh1 == apply_user_setpoint(m.sh)
        rl == ClosedLoop_run(m.ctl["L"], left_vel_fb, sh1.left_sp_sh,
                             sh1.kp, sh1.ki, m.bat, v, t)
        rr == ClosedLoop_run(m.ctl["R"], right_vel_fb, sh1.right_sp_sh,
                             sh1.kp, sh1.ki, rl.bat, v, t)
        open == split_setpoints(m.sh.driving_mode, m.sh.eff)
        left_eff == IF mode = 0 THEN open[1] ELSE rl.ret
        right_eff == IF mode = 0 THEN open[2] ELSE rr.ret
        m1 == [m EXCEPT !.enc = enc1, !.sh = sh1]
    IN  IF mode # 0 /\ rl.raised
        THEN [m1 EXCEPT !.ctl = [m.ctl EXCEPT !["L"] = rl.ctl],
                        !.bat = rl.bat, !.raised = TRUE]
        ELSE IF mode # 0 /\ rr.raised
        THEN [m1 EXCEPT !.ctl = [L |-> rl.ctl, R |-> rr.ctl],
                        !.bat = rr.bat, !.raised = TRUE]
        ELSE [m1 EXCEPT
                !.ctl = IF mode = 0 THEN m.ctl
                        ELSE [L |-> rl.ctl, R |-> rr.ctl],
                !.bat = IF mode = 0 THEN m.bat ELSE rr.bat,
                !.motor = [L |-> Motor_set_effort(m.motor["L"], left_eff),
                           R |-> Motor_set_effort(m.motor["R"], right_eff)],
                !.sh = [sh1 EXCEPT !.time_sh = tm,
                                   !.left_pos_sh = left_pos,
                                   !.right_pos_sh = right_pos,
                                   !.left_vel_sh = left_vel_fb,
                                   !.right_vel_sh = right_vel_fb,
                                   !.left_eff_sh = left_eff,
                                   !.right_eff_sh = right_eff,
                                   !.motor_data_ready = 1]]

\* one pass through the dispatch of run()
MotorPass(m0, t, v) ==
    LET m == [m0 EXCEPT !.passes = m0.passes + 1, !.cont = FALSE]
    IN  IF m.state = S0_INIT THEN Motor_S0(m, t)
        ELSE IF m.state = S1_WAIT_FOR_ENABLE THEN Motor_S1(m, t, v)
        ELSE IF m.sh.abort # 0 THEN Motor_S2_abort(m, t)
        ELSE Motor_S2_body(m, t, v)

\* one resumption of the generator: passes until a yield or an exception
RECURSIVE MotorResume(_, _, _)
MotorResume(m, t, v) ==
    LET m1 == MotorPass(m, t, v)
    IN  IF m1.raised \/ ~m1.cont THEN m1 ELSE MotorResume(m1, t, v)

(***************************************************************************)
(* Queue (task_share.Queue): a ring buffer [cap, buf, wr, count] with a    *)
(* write cursor and a count; the oldest element is count places behind the *)
(* cursor.  put and get return the queue after the call and the outcome.   *)
(***************************************************************************)
Queue_new(cap) ==
    [cap |-> cap, buf |-> [i \in 0..(cap - 1) |-> 0], wr |-> 0, count |-> 0]

Queue_full(q) == q.count = q.cap
Queue_any(q) == q.count > 0
Queue_num_in(q) == q.count

\* mutant: a drop-oldest ring buffer, which overwrites when full
Queue_put_Overwrite(q, v) ==
    [q |-> [q EXCEPT !.buf[q.wr] = v, !.wr = (q.wr + 1) % q.cap,
                     !.count = Min(q.count + 1, q.cap)],
     ok |-> TRUE]

Queue_put(q, v) ==
    IF Queue_full(q) THEN [q |-> q, ok |-> FALSE]
    ELSE [q |-> [q EXCEPT !.buf[q.wr] = v, !.wr = (q.wr + 1) % q.cap,
                          !.count = q.count + 1],
          ok |-> TRUE]

\* mutant: get returns the newest element (a stack)
Queue_get_Newest(q) ==
    IF q.count = 0 THEN [q |-> q, ok |-> FALSE, val |-> 0]
    ELSE [q |-> [q EXCEPT !.count = q.count - 1,
                          !.wr = (q.wr + q.cap - 1) % q.cap],
          ok |-> TRUE, val |-> q.buf[(q.wr + q.cap - 1) % q.cap]]

Queue_get(q) ==
    IF q.count = 0 THEN [q |-> q, ok |-> FALSE, val |-> 0]
    ELSE [q |-> [q EXCEPT !.count = q.count - 1],
          ok |-> TRUE, val |-> q.buf[(q.wr + q.cap - q.count) % q.cap]]

\* clear resets count and cursor and does not zero the stored elements
Queue_clear(q) == [q EXCEPT !.wr = 0, !.count = 0]

\* the stored values, oldest first
Queue_contents(q) ==
    [i \in 1..q.count |-> q.buf[(q.wr + q.cap - q.count + i - 1) % q.cap]]

(***************************************************************************)
(* DataCollectionTask (src/data_task.py).  The generator has two yields:   *)
(* pc is "mid" when it is suspended at line 127 and "top" otherwise.       *)
(* The bundle is [state, pc, queues, sh, passes].                          *)
(***************************************************************************)
DC_S0_INIT == 0
DC_S1_WAIT_FOR_START_COLLECTING == 1
DC_S2_COLLECTING_DATA == 2
DC_S3_COLLECTION_DONE == 3

MotorQueues == {"time_q", "left_pos_q", "right_pos_q", "left_vel_q",
                "right_vel_q"}
ObsvQueues == {"obsv_time_q", "obsv_sL_q", "obsv_sR_q", "obsv_psi_q",
               "obsv_psi_dot_q"}
QueueNames == MotorQueues \cup ObsvQueues

\* the Share each queue is filled from (lines 114-125)
QueueSource(s, n) ==
    CASE n = "time_q" -> s.time_sh
      [] n = "left_pos_q" -> s.left_pos_sh
      [] n = "right_pos_q" -> s.right_pos_sh
      [] n = "left_vel_q" -> s.left_vel_sh
      [] n = "right_vel_q" -> s.right_vel_sh
      [] n = "obsv_time_q" -> s.obsv_time_sh
      [] n = "obsv_sL_q" -> s.obsv_sL_sh
      [] n = "obsv_sR_q" -> s.obsv_sR_sh
      [] n = "obsv_psi_q" -> s.obsv_psi_sh
      [] n = "obsv_psi_dot_q" -> s.obsv_psi_dot_sh

PutAll(qs, names, s) ==
    [n \in QueueNames |->
        IF n \in names THEN Queue_put(qs[n], QueueSource(s, n)).q ELSE qs[n]]

\* lines 108-133: the COLLECTING body up to its yield or its else branch
Data_S2(d) ==
    LET qs1 == IF ~Queue_full(d.queues["time_q"]) /\ d.sh.abort = 0
               THEN PutAll(d.queues, MotorQueues, d.sh)
               ELSE d.queues
    IN  IF ~Queue_full(qs1["obsv_time_q"]) /\ d.sh.abort = 0
        THEN [d EXCEPT !.queues = PutAll(qs1, ObsvQueues, d.sh),
                       !.pc = "mid"]
        ELSE [d EXCEPT !.queues = qs1,
                       !.sh = [d.sh EXCEPT !.col_done = 1],
                       !.state = DC_S3_COLLECTION_DONE]

\* one resumption of run(): from "mid" it only reaches the yield of line
\* 141; from "top" it makes one pass through the dispatch
DataResume(d) ==
    IF d.pc = "mid" THEN [d EXCEPT !.pc = "top", !.passes = 0]
    ELSE LET d1 == [d EXCEPT !.passes = 1]
         IN  IF d.state = DC_S0_INIT
             THEN [d1 EXCEPT
                     !.queues = [n \in QueueNames |-> Queue_clear(d.queues[n])],
                     !.state = DC_S1_WAIT_FOR_START_COLLECTING]
             ELSE IF d.state = DC_S1_WAIT_FOR_START_COLLECTING
             THEN IF d.sh.col_start # 0
                  THEN [d1 EXCEPT !.state = DC_S2_COLLECTING_DATA]
                  ELSE d1
             ELSE IF d.state = DC_S2_COLLECTING_DATA THEN Data_S2(d1)
             ELSE IF d.sh.col_start = 0
                  THEN [d1 EXCEPT !.state = DC_S1_WAIT_FOR_START_COLLECTING]
                  ELSE d1

(***************************************************************************)
(* SpectatorTask (src/spectator_task.py).  The bundle is                   *)
(* [state, start_left_counts, start_right_counts, prev_left_counts,        *)
(*  prev_right_counts, sh, passes, cont].  The world-frame pose (x, y,     *)
(* theta: trigonometry on floats) is not part of the model.                *)
(***************************************************************************)
SP_S0_INIT == 0
SP_S1_WAITING == 1
SP_S2_ESTIMATING == 2
MicronPerCount == 153

\* center_counts * RAD_PER_COUNT * WHEEL_RADIUS_MM, from twice center_counts
TotalMm(counts2) == TruncDiv(counts2 * MicronPerCount, 2000)

\* _reset_odometry, lines 80-107
reset_odometry(p) ==
    [p EXCEPT !.sh = [p.sh EXCEPT !.total_s_sh = 0],
              !.start_left_counts = p.sh.left_pos_sh,
              !.start_right_counts = p.sh.right_pos_sh,
              !.prev_left_counts = p.sh.left_pos_sh,
              !.prev_right_counts = p.sh.right_pos_sh]

SpectatorPass(p0) ==
    LET p == [p0 EXCEPT !.passes = p0.passes + 1, !.cont = FALSE]
    IN  IF p.state = SP_S0_INIT
        THEN [reset_odometry(p) EXCEPT !.state = SP_S1_WAITING]
        ELSE IF p.state = SP_S1_WAITING
        THEN IF p.sh.run_observer # 0
             THEN [reset_odometry(p) EXCEPT !.state = SP_S2_ESTIMATING]
             ELSE p
        ELSE IF p.sh.run_observer = 0
        THEN [p EXCEPT !.state = SP_S1_WAITING, !.cont = TRUE]
        ELSE [p EXCEPT
                !.prev_left_counts = p.sh.left_pos_sh,
                !.prev_right_counts = p.sh.right_pos_sh,
                !.sh = [p.sh EXCEPT !.total_s_sh =
                          TotalMm((p.sh.left_pos_sh - p.start_left_counts)
                                + (p.sh.right_pos_sh - p.start_right_counts))]]

RECURSIVE SpectatorResume(_)
SpectatorResume(p) ==
    LET p1 == SpectatorPass(p)
    IN  IF ~p1.cont THEN p1 ELSE SpectatorResume(p1)

(***************************************************************************)
(* The task list of main() (src/main.py lines 265-297) and the scheduler   *)
(* pass (cotask.task_list.pri_sched).                                      *)
(***************************************************************************)
TaskList == <<"motor", "ui", "stream", "steering", "gc", "spectator", "path">>
Tasks == {TaskList[i] : i \in 1..Len(TaskList)}

\* mutant: the Spectator task created with the Motor Control task's priority
Priority_SpectatorHigh(t) ==
    CASE t = "motor" -> 3 [] t = "ui" -> 0 [] t = "stream" -> 1
      [] t = "steering" -> 2 [] t = "gc" -> 0 [] t = "spectator" -> 3
      [] t = "path" -> 2

Priority(t) ==
    CASE t = "motor" -> 3 [] t = "ui" -> 0 [] t = "stream" -> 1
      [] t = "steering" -> 2 [] t = "gc" -> 0 [] t = "spectator" -> 2
      [] t = "path" -> 2

\* mutant: the Steering task created with the Motor Control task's period
Period_SteeringFast(t) ==
    CASE t = "motor" -> 20 [] t = "ui" -> 100 [] t = "stream" -> 20
      [] t = "steering" -> 20 [] t = "gc" -> 100 [] t = "spectator" -> 20
      [] t = "path" -> 40

Period(t) ==
    CASE t = "motor" -> 20 [] t = "ui" -> 100 [] t = "stream" -> 20
      [] t = "steering" -> 40 [] t = "gc" -> 100 [] t = "spectator" -> 20
      [] t = "path" -> 40

RegIndex(t) == CHOOSE i \in 1..Len(TaskList) : TaskList[i] = t

\* u is serviced before t: higher priority, or equal and registered earlier
Precedes(u, t) ==
    \/ Priority(u) > Priority(t)
    \/ Priority(u) = Priority(t) /\ RegIndex(u) < RegIndex(t)

\* the order in which a pass scans the tasks
SchedOrder ==
    [i \in 1..Len(TaskList) |->
        CHOOSE t \in Tasks : Cardinality({u \in Tasks : Precedes(u, t)}) = i - 1]

\* a task is due when its period has elapsed since it last ran
Due(t, tickNow, last) == tickNow - last >= Period(t)

(***************************************************************************)
(* main(): the except clauses of the scheduler loop (lines 316-325).       *)
(* Returns the motors and where main() is after the handler.               *)
(***************************************************************************)
\* mutant: the bare except clause logs and lets the loop go on
MainHandler_Swallow(e, mot) ==
    [motor |-> [w \in Wheels |-> Motor_disable(mot[w])],
     pc |-> IF e = "kbd" THEN "exited" ELSE "loop"]

MainHandler(e, mot) ==
    [motor |-> [w \in Wheels |-> Motor_disable(mot[w])],
     pc |-> IF e = "kbd" THEN "exited" ELSE "raised"]

(***************************************************************************)
(* Initial state: the objects as main() constructs them.                   *)
(***************************************************************************)
(***************************************************************************)
(* SteeringTask (src/steering_task.py) and what it uses of the IR array    *)
(* (src/IR_sensor.py).  Velocities and gains are whole numbers; the bias   *)
(* and the normalized error are in hundredths; headings are in degrees;    *)
(* the sum of the normalized IR readings is in millionths; the centroid is *)
(* a sensor index.                                                         *)
(***************************************************************************)
ST_S0_INIT == 0
ST_S1_WAIT_ENABLE == 1
ST_S2_FOLLOW == 2
ST_S3_LOST == 3
ST_S4_HEADING == 4

\* the board indices main.py gives the array (src/main.py line 96)
sensor_index == 1..11
idx_min == CHOOSE i \in sensor_index : \A j \in sensor_index : i <= j
idx_max == CHOOSE i \in sensor_index : \A j \in sensor_index : i >= j

\* 0.5 * (idx_max - idx_min), 1.0 for a single index (lines 72, 118); the
\* span of the indices modelled is even
half_span == IF idx_max > idx_min THEN TruncDiv(idx_max - idx_min, 2) ELSE 1

\* IRArray.center_index
center_index == TruncDiv(idx_min + idx_max, 2)

\* 1e-6, the sum above which get_centroid reports the line as seen
SeenEps == 1

\* 0.05, the sum above which LOST takes the line as found again
reacquire_thresh == 50000

\* IRArray.get_centroid: <<centroid, seen>>
IRArray_get_centroid(r) ==
    IF r.total <= SeenEps THEN <<0, FALSE>> ELSE <<r.centroid, TRUE>>

SteeringTask_compute_clamp_bound(s) ==
    Max(Abs(s.lf_target) + Abs(s.k_line) * half_span, 1)

SteeringTask_publish(s, v_left, v_right) ==
    LET max_sp == SteeringTask_compute_clamp_bound(s)
    IN  [s EXCEPT !.left_sp_sh = Max(Min(v_left, max_sp), 0 - max_sp),
                  !.right_sp_sh = Max(Min(v_right, max_sp), 0 - max_sp)]

\* the bundle a step works on: the task's state, the Shares, and whether
\* the step published
Steer_S0(b) ==
    [b EXCEPT !.sh = SteeringTask_publish([b.sh EXCEPT !.bias = 0], 0, 0),
              !.pub = TRUE, !.state = ST_S1_WAIT_ENABLE]

\* mutant: WAIT_ENABLE publishes nothing
Steer_S1_NoPublish(b) ==
    [b EXCEPT !.state = IF b.sh.control_mode = 2 THEN ST_S2_FOLLOW
                        ELSE IF b.sh.control_mode = 3 THEN ST_S4_HEADING
                        ELSE ST_S1_WAIT_ENABLE]

Steer_S1(b) ==
    [b EXCEPT !.sh = SteeringTask_publish(b.sh, 0, 0),
              !.pub = TRUE,
              !.state = IF b.sh.control_mode = 2 THEN ST_S2_FOLLOW
                        ELSE IF b.sh.control_mode = 3 THEN ST_S4_HEADING
                        ELSE ST_S1_WAIT_ENABLE]

Steer_S2(b, r) ==
    IF b.sh.control_mode = 2
    THEN IF b.sh.mtr_enable # 0
         THEN LET c == IRArray_get_centroid(r)
                  error_norm == TruncDiv((c[1] - center_index) * 100, half_span)
                                    + b.sh.bias
                  correction == TruncDiv(b.sh.k_line * error_norm, 100)
              IN  IF ~c[2]
                  THEN [b EXCEPT !.state = ST_S3_LOST]
                  ELSE [b EXCEPT
                          !.sh = SteeringTask_publish(b.sh,
                                     b.sh.lf_target + correction,
                                     b.sh.lf_target - correction),
                          !.pub = TRUE]
         ELSE b
    ELSE [b EXCEPT !.sh = SteeringTask_publish(b.sh, 0, 0), !.pub = TRUE,
                   !.state = ST_S1_WAIT_ENABLE]

\* mutant: LOST compares the sum with the threshold of get_centroid
Steer_S3_SeenEps(b, r) ==
    IF b.sh.control_mode # 2
    THEN [b EXCEPT !.sh = SteeringTask_publish(b.sh, 0, 0), !.pub = TRUE,
                   !.state = ST_S1_WAIT_ENABLE]
    ELSE LET v == TruncDiv(b.sh.lf_target, 2)
         IN  [b EXCEPT !.sh = SteeringTask_publish(b.sh, v, v), !.pub = TRUE,
                       !.state = IF r.total > SeenEps
                                 THEN ST_S2_FOLLOW ELSE ST_S3_LOST]

Steer_S3(b, r) ==
    IF b.sh.control_mode # 2
    THEN [b EXCEPT !.sh = SteeringTask_publish(b.sh, 0, 0), !.pub = TRUE,
                   !.state = ST_S1_WAIT_ENABLE]
    ELSE LET v == TruncDiv(b.sh.lf_target, 2)
         IN  [b EXCEPT !.sh = SteeringTask_publish(b.sh, v, v), !.pub = TRUE,
                       !.state = IF r.total > reacquire_thresh
                                 THEN ST_S2_FOLLOW ELSE ST_S3_LOST]

Steer_S4(b) ==
    IF b.sh.control_mode = 3
    THEN IF b.sh.mtr_enable # 0
         THEN LET correction ==
                      TruncDiv(b.sh.k_heading
                                 * (b.sh.heading - b.sh.heading_setpoint), 180)
              IN  [b EXCEPT
                     !.sh = SteeringTask_publish(b.sh,
                                b.sh.lf_target + correction,
                                b.sh.lf_target - correction),
                     !.pub = TRUE]
         ELSE b
    ELSE [b EXCEPT !.sh = SteeringTask_publish(b.sh, 0, 0), !.pub = TRUE,
                   !.state = ST_S1_WAIT_ENABLE]

\* one resumption of SteeringTask.run: one state body, then the yield
SteeringTask_run(b, r) ==
    IF b.state = ST_S0_INIT THEN Steer_S0(b)
    ELSE IF b.state = ST_S1_WAIT_ENABLE THEN Steer_S1(b)
    ELSE IF b.state = ST_S2_FOLLOW THEN Steer_S2(b, r)
    ELSE IF b.state = ST_S3_LOST THEN Steer_S3(b, r)
    ELSE IF b.state = ST_S4_HEADING THEN Steer_S4(b)
    ELSE b

(***************************************************************************)
(* UITask (src/ui_task.py).  Bytes are one-character strings; what was     *)
(* written to the UART is kept as records.  The numeric fields of 'v' and  *)
(* 'l' are hundredths and the Shares hold whole numbers.                   *)
(***************************************************************************)
UI_S0_INIT == 0
UI_S1_WAIT_FOR_COMMAND == 1
UI_S2_PROCESS_COMMAND == 2
UI_S3_MONITOR_TEST == 3
UI_S4_CALIBRATION == 4

UIInit == [state |-> UI_S0_INIT, cmd_buf |-> "", pc |-> "top"]

DigitChars == <<"0", "1", "2", "3", "4", "5", "6", "7", "8", "9">>
IsDigit(c) == \E i \in 1..Len(DigitChars) : DigitChars[i] = c
DigitVal(c) == (CHOOSE i \in 1..Len(DigitChars) : DigitChars[i] = c) - 1

RECURSIVE DigitsVal(_)
DigitsVal(cs) ==
    IF cs = <<>> THEN 0
    ELSE 10 * DigitsVal(SubSeq(cs, 1, Len(cs) - 1)) + DigitVal(cs[Len(cs)])

\* int(str) on a field: an optional sign, then digits only; anything else
\* is a ValueError
ParseInt(cs) ==
    LET signed == cs # <<>> /\ cs[1] \in {"-", "+"}
        ds == IF signed THEN Tail(cs) ELSE cs
    IN  IF ds = <<>> \/ \E i \in 1..Len(ds) : ~IsDigit(ds[i])
        THEN [ok |-> FALSE, val |-> 0]
        ELSE [ok |-> TRUE,
              val |-> IF signed /\ cs[1] = "-" THEN 0 - DigitsVal(ds)
                      ELSE DigitsVal(ds)]

\* ser.write(b'q'), the END marker of StreamTask, a voltage line
TxQ == [kind |-> "q"]
TxEnd == [kind |-> "end"]
TxVolt == [kind |-> "volt"]

\* UITask handling 'r' (run) and 'k' (kill): src/ui_task.py lines 238-264
UITask_command(s, cmd) ==
    IF cmd = "r"
    THEN IF s.mtr_enable = 0
         THEN [s EXCEPT !.abort = 0, !.mtr_enable = 1, !.stream_data = 1]
         ELSE s
    ELSE IF cmd = "k"
    THEN [s EXCEPT !.abort = 1, !.mtr_enable = 0, !.stream_data = 0]
    ELSE s

\* UITask handling 'n': the driving mode cycles 1 (announced as Straight),
\* 2 (Pivot), 3 (Arc), only while the motors are stopped (src/ui_task.py
\* lines 272-287)
UITask_toggle_mode(s) ==
    IF s.mtr_enable = 0
    THEN LET current_mode == IF s.driving_mode # 0 THEN s.driving_mode ELSE 1
         IN  [s EXCEPT !.driving_mode = IF current_mode = 1 THEN 2
                                        ELSE IF current_mode = 2 THEN 3
                                        ELSE 1]
    ELSE s

\* lines 107-118
UI_S0(b) ==
    [b EXCEPT !.sh = [b.sh EXCEPT !.col_start = 0, !.col_done = 0,
                                  !.abort = 0, !.driving_mode = 1,
                                  !.ack_end = 0],
              !.ui.state = UI_S1_WAIT_FOR_COMMAND]

\* lines 121-170
UI_S1(b) ==
    IF b.rx # <<>>
    THEN [b EXCEPT !.ui.cmd_buf = Head(b.rx), !.rx = Tail(b.rx),
                   !.ui.state = UI_S2_PROCESS_COMMAND]
    ELSE b

\* lines 177-188: 'e' and one more byte
UI_effort(b) ==
    IF b.ui.cmd_buf = "e" /\ Len(b.rx) >= 1
    THEN LET value_str == Head(b.rx)
             b1 == [b EXCEPT !.rx = Tail(b.rx)]
         IN  IF IsDigit(value_str) \/ value_str = "a"
             THEN LET val == 10 * (IF IsDigit(value_str)
                                   THEN DigitVal(value_str) ELSE 10)
                  IN  [b1 EXCEPT !.sh = [b.sh EXCEPT !.eff = val,
                                                     !.control_mode = 0]]
             ELSE b1
    ELSE b

\* lines 190-209: 'v' and twelve more bytes
UI_velocity(b) ==
    IF b.ui.cmd_buf = "v" /\ Len(b.rx) >= 12
    THEN LET value_str == SubSeq(b.rx, 1, 12)
             sp == ParseInt(SubSeq(value_str, 1, 4))
             kp == ParseInt(SubSeq(value_str, 5, 8))
             ki == ParseInt(SubSeq(value_str, 9, 12))
             b1 == [b EXCEPT !.rx = SubSeq(b.rx, 13, Len(b.rx))]
         IN  IF sp.ok /\ kp.ok /\ ki.ok
             THEN [b1 EXCEPT !.sh = [b.sh EXCEPT
                                       !.setpoint = TruncDiv(sp.val, 100),
                                       !.kp = TruncDiv(kp.val, 100),
                                       !.ki = TruncDiv(ki.val, 100),
                                       !.control_mode = 1]]
             ELSE b1
    ELSE b

\* lines 211-234: 'l' and sixteen more bytes
UI_line(b) ==
    IF b.ui.cmd_buf = "l" /\ Len(b.rx) >= 16
    THEN LET value_str == SubSeq(b.rx, 1, 16)
             kp == ParseInt(SubSeq(value_str, 1, 4))
             ki == ParseInt(SubSeq(value_str, 5, 8))
             kl == ParseInt(SubSeq(value_str, 9, 12))
             vt == ParseInt(SubSeq(value_str, 13, 16))
             b1 == [b EXCEPT !.rx = SubSeq(b.rx, 17, Len(b.rx))]
         IN  IF kp.ok /\ ki.ok /\ kl.ok /\ vt.ok
             THEN [b1 EXCEPT !.sh = [b.sh EXCEPT
                                       !.kp = TruncDiv(kp.val, 100),
                                       !.ki = TruncDiv(ki.val, 100),
                                       !.k_line = TruncDiv(kl.val, 100),
                                       !.lf_target = TruncDiv(vt.val, 100),
                                       !.control_mode = 2]]
             ELSE b1
    ELSE b

\* lines 238-308: the single-byte commands; v is what the battery ADC reads
\* lines 238-308: the single-byte commands; v is what the battery ADC reads
UI_command(b, v) ==
    LET cmd == b.ui.cmd_buf
    IN  IF cmd = "r"
        THEN IF b.sh.mtr_enable = 0
             THEN [b EXCEPT !.sh = UITask_command(b.sh, "r"),
                            !.tx = Append(b.tx, TxQ),
                            !.ui.state = UI_S3_MONITOR_TEST]
             ELSE b
        ELSE IF cmd = "k"
        THEN [b EXCEPT !.sh = UITask_command(b.sh, "k")]
        ELSE IF cmd = "s"
        THEN [b EXCEPT !.sh.stream_data = 1]
        ELSE IF cmd = "n"
        THEN [b EXCEPT !.sh = UITask_toggle_mode(b.sh)]
        ELSE IF cmd = "i"
        THEN [b EXCEPT !.ui.state = UI_S4_CALIBRATION]
        ELSE IF cmd = "V"
        THEN IF v = AdcFail THEN [b EXCEPT !.raised = TRUE]
             ELSE [b EXCEPT !.tx = Append(b.tx, TxVolt)]
        ELSE IF cmd = "w"
        THEN [b EXCEPT !.sh.ir_cmd = 1]
        ELSE IF cmd = "b"
        THEN [b EXCEPT !.sh.ir_cmd = 2]
        ELSE b

\* lines 173-313
UI_S2(b, v) ==
    LET b1 == UI_command(UI_line(UI_velocity(UI_effort(b))), v)
    IN  IF ~b1.raised /\ b1.ui.state = UI_S2_PROCESS_COMMAND
        THEN [b1 EXCEPT !.ui.state = UI_S1_WAIT_FOR_COMMAND,
                        !.did = b.ui.cmd_buf]
        ELSE [b1 EXCEPT !.did = b.ui.cmd_buf]

\* mutant: a kill seen while monitoring clears the enable flag and sets no
\* abort
UI_S3_KillNoAbort(b) ==
    IF b.ui.pc = "flush"
    THEN [b EXCEPT !.rx = <<>>, !.ui.pc = "top"]
    ELSE IF b.rx # <<>>
    THEN IF \E i \in 1..Len(b.rx) : b.rx[i] \in {"k", "K"}
         THEN [b EXCEPT !.rx = <<>>,
                        !.sh = [b.sh EXCEPT !.mtr_enable = 0],
                        !.tx = Append(b.tx, TxQ),
                        !.ui.state = UI_S1_WAIT_FOR_COMMAND,
                        !.ui.pc = "flush", !.did = "k"]
         ELSE [b EXCEPT !.rx = <<>>]
    ELSE IF b.sh.mtr_enable = 0 \/ b.sh.stream_data = 0
    THEN [b EXCEPT !.sh = [b.sh EXCEPT !.abort = 1, !.mtr_enable = 0],
                   !.ui.state = UI_S1_WAIT_FOR_COMMAND]
    ELSE b

\* lines 316-358: everything received is read at once; a kill yields at
\* line 341 before the rest of the buffer is dropped
UI_S3(b) ==
    IF b.ui.pc = "flush"
    THEN [b EXCEPT !.rx = <<>>, !.ui.pc = "top"]
    ELSE IF b.rx # <<>>
    THEN IF \E i \in 1..Len(b.rx) : b.rx[i] \in {"k", "K"}
         THEN [b EXCEPT !.rx = <<>>,
                        !.sh = [b.sh EXCEPT !.abort = 1, !.mtr_enable = 0],
                        !.tx = Append(b.tx, TxQ),
                        !.ui.state = UI_S1_WAIT_FOR_COMMAND,
                        !.ui.pc = "flush", !.did = "k"]
         ELSE [b EXCEPT !.rx = <<>>]
    ELSE IF b.sh.mtr_enable = 0 \/ b.sh.stream_data = 0
    THEN [b EXCEPT !.sh = [b.sh EXCEPT !.abort = 1, !.mtr_enable = 0],
                   !.ui.state = UI_S1_WAIT_FOR_COMMAND]
    ELSE b

\* lines 361-375
UI_S4(b) ==
    IF b.rx # <<>>
    THEN [b EXCEPT !.rx = Tail(b.rx),
                   !.ui.state = IF Head(b.rx) = "j"
                                THEN UI_S1_WAIT_FOR_COMMAND
                                ELSE UI_S4_CALIBRATION]
    ELSE b

\* one resumption of UITask.run; a generator suspended at line 341 goes on
\* from there whatever the state
UITask_run(b, v) ==
    IF b.ui.pc = "flush" THEN UI_S3(b)
    ELSE IF b.ui.state = UI_S0_INIT THEN UI_S0(b)
    ELSE IF b.ui.state = UI_S1_WAIT_FOR_COMMAND THEN UI_S1(b)
    ELSE IF b.ui.state = UI_S2_PROCESS_COMMAND THEN UI_S2(b, v)
    ELSE IF b.ui.state = UI_S3_MONITOR_TEST THEN UI_S3(b)
    ELSE IF b.ui.state = UI_S4_CALIBRATION THEN UI_S4(b)
    ELSE b

(***************************************************************************)
(* StreamTask (src/src/stream_task.py).                                    *)
(***************************************************************************)
STR_S0_INIT == 0
STR_S1_WAIT_FOR_TRIGGER == 1
STR_S2_STREAM_DATA == 2

StreamInit == [state |-> STR_S0_INIT, sent_end |-> 0, lines_sent |-> 0]

\* the framed line of lines 101-111
TxFrame(n, s) ==
    [kind |-> "frame", n |-> n, t |-> s.time_sh, pL |-> s.left_pos_sh,
     pR |-> s.right_pos_sh, vL |-> s.left_vel_sh, vR |-> s.right_vel_sh]

\* mutant: the END marker is written on every step
Stream_end_Always(b) ==
    [b EXCEPT !.tx = Append(b.tx, TxEnd),
              !.stream.sent_end = 1,
              !.stream.lines_sent = 0]

\* lines 83-86 and 90-93: the END marker, once
Stream_end(b) ==
    [b EXCEPT !.tx = IF b.stream.sent_end = 0 THEN Append(b.tx, TxEnd)
                     ELSE b.tx,
              !.stream.sent_end = 1,
              !.stream.lines_sent = 0]

\* mutant: an abort only resets the line counter
Stream_S2_Silent(b) ==
    IF b.sh.abort # 0
    THEN [b EXCEPT !.stream.lines_sent = 0]
    ELSE IF b.sh.stream_data = 0
    THEN [Stream_end(b) EXCEPT !.stream.state = STR_S1_WAIT_FOR_TRIGGER]
    ELSE IF b.sh.motor_data_ready # 0
    THEN [b EXCEPT !.stream.sent_end = 0,
                   !.tx = Append(b.tx, TxFrame(b.stream.lines_sent, b.sh)),
                   !.stream.lines_sent = b.stream.lines_sent + 1,
                   !.sh.motor_data_ready = 0]
    ELSE b

\* lines 80-114
Stream_S2(b) ==
    IF b.sh.abort # 0
    THEN Stream_end(b)
    ELSE IF b.sh.stream_data = 0
    THEN [Stream_end(b) EXCEPT !.stream.state = STR_S1_WAIT_FOR_TRIGGER]
    ELSE IF b.sh.motor_data_ready # 0
    THEN [b EXCEPT !.stream.sent_end = 0,
                   !.tx = Append(b.tx, TxFrame(b.stream.lines_sent, b.sh)),
                   !.stream.lines_sent = b.stream.lines_sent + 1,
                   !.sh.motor_data_ready = 0]
    ELSE b

\* one resumption of StreamTask.run
StreamTask_run(b) ==
    IF b.stream.state = STR_S0_INIT
    THEN [b EXCEPT !.sh.stream_data = 1,
                   !.stream = [state |-> STR_S1_WAIT_FOR_TRIGGER,
                               sent_end |-> 0, lines_sent |-> 0]]
    ELSE IF b.stream.state = STR_S1_WAIT_FOR_TRIGGER
    THEN IF b.sh.stream_data # 0
         THEN [b EXCEPT !.stream.state = STR_S2_STREAM_DATA]
         ELSE b
    ELSE IF b.stream.state = STR_S2_STREAM_DATA THEN Stream_S2(b)
    ELSE b

(***************************************************************************)
(* PathPlanningTask (src/path_planning_task.py).  Displacements are whole  *)
(* millimetres, headings whole degrees, the bias is in hundredths.         *)
(***************************************************************************)
PP_S0_INIT == 0
PP_S1_SEG1 == 1
PP_S2_SEG2 == 2
PP_S3_SEG3 == 3
PP_S4_SEG4 == 4
PP_S5_SEG5 == 5
PP_S6_SEG6 == 6
PP_S9_DONE == 9

\* line 64
threshold == <<580, 720, 910, 1070, 1550, 1750, 2000, 3140, 3640, 4220>>

\* lines 64-71
PathInit ==
    [state |-> PP_S0_INIT, first |-> 1, checkpoint |-> 0,
     pivotting |-> FALSE, maneuver |-> 0]

\* lines 77-90; b is the task's fields with the Shares
pivot_in_place(b, effort, target) ==
    LET error == target - b.sh.heading
        s1 == [b.sh EXCEPT !.control_mode = 0, !.driving_mode = 1]
    IN  IF Abs(error) > 5
        THEN [b EXCEPT !.sh = [s1 EXCEPT !.eff = IF error > 0 THEN 0 - effort
                                                 ELSE effort]]
        ELSE [b EXCEPT !.sh = [s1 EXCEPT !.eff = 0],
                       !.pp.pivotting = FALSE]

\* past(b, i): the total displacement is beyond threshold[i] (Python index)
past(b, i) == b.sh.total_s_sh > threshold[i + 1]

\* the print at the start of a segment
seg_started(b) == [b EXCEPT !.pp.first = 0]

\* lines 100-112
Path_S0(b) ==
    IF b.sh.planning # 0 /\ b.sh.mtr_enable # 0
    THEN [b EXCEPT !.sh = [b.sh EXCEPT !.stream_data = 0, !.kp = 6, !.ki = 0,
                                       !.k_line = 7, !.lf_target = 10,
                                       !.control_mode = 2,
                                       !.total_s_sh = 0],
                   !.pp.state = PP_S1_SEG1]
    ELSE b

\* lines 114-135
Path_S1(b) ==
    LET b1 == seg_started(b)
        b2 == IF past(b1, 0)
              THEN [b1 EXCEPT !.pp.checkpoint = IF @ < 1 THEN @ + 1 ELSE @,
                              !.sh.lf_target = 6, !.sh.bias = 50]
              ELSE b1
    IN  IF past(b2, 1)
        THEN [b2 EXCEPT !.pp.first = 1, !.sh.lf_target = 7, !.sh.bias = 0,
                        !.pp.state = PP_S2_SEG2]
        ELSE b2

\* lines 137-159
Path_S2(b) ==
    LET b1 == seg_started(b)
        b2 == IF past(b1, 2) /\ b1.pp.checkpoint < 2
              THEN [b1 EXCEPT !.sh.setpoint = 7, !.sh.control_mode = 1,
                              !.pp.checkpoint = @ + 1]
              ELSE b1
    IN  IF past(b2, 3)
        THEN [b2 EXCEPT !.sh.bias = 0 - 60, !.sh.lf_target = 9,
                        !.sh.control_mode = 2, !.pp.first = 1,
                        !.pp.state = PP_S3_SEG3]
        ELSE b2

\* lines 161-181
Path_S3(b) ==
    LET b1 == seg_started(b)
        b2 == IF past(b1, 4)
              THEN [b1 EXCEPT !.sh.bias = 0, !.sh.k_line = 5,
                              !.sh.lf_target = 8,
                              !.pp.checkpoint = IF @ < 3 THEN @ + 1 ELSE @]
              ELSE b1
    IN  IF past(b2, 5)
        THEN [b2 EXCEPT !.sh.k_line = 7, !.pp.first = 1,
                        !.pp.state = PP_S4_SEG4]
        ELSE b2

\* lines 183-202
Path_S4(b) ==
    LET b1 == seg_started(b)
        b2 == IF past(b1, 6)
              THEN [b1 EXCEPT !.pp.checkpoint = IF @ < 4 THEN @ + 1 ELSE @]
              ELSE b1
    IN  IF past(b2, 7)
        THEN [b2 EXCEPT !.sh.control_mode = 0, !.pp.pivotting = TRUE,
                        !.pp.first = 1, !.pp.state = PP_S5_SEG5]
        ELSE b2

\* lines 205-253
Path_S5(b) ==
    LET b1 == IF b.pp.first = 1
              THEN [b EXCEPT !.pp.pivotting = TRUE, !.pp.first = 0]
              ELSE b
        b2 == IF b1.pp.maneuver = 0
              THEN IF b1.pp.pivotting THEN pivot_in_place(b1, 10, 163)
                   ELSE [b1 EXCEPT !.pp.maneuver = @ + 1,
                                   !.pp.pivotting = TRUE]
              ELSE b1
        b3 == IF b2.pp.maneuver = 1 /\ b2.pp.checkpoint < 5
              THEN [b2 EXCEPT !.pp.checkpoint = @ + 1,
                              !.sh.kp = 4, !.sh.ki = 0, !.sh.k_heading = 6,
                              !.sh.lf_target = 4,
                              !.sh.heading_setpoint = 163,
                              !.sh.control_mode = 3]
              ELSE b2
        b4 == IF b3.pp.maneuver = 1 /\ past(b3, 8)
              THEN [b3 EXCEPT !.pp.maneuver = @ + 1, !.pp.pivotting = TRUE]
              ELSE b3
        b5 == IF b4.pp.maneuver = 2
              THEN IF b4.pp.pivotting THEN pivot_in_place(b4, 10, 180)
                   ELSE [b4 EXCEPT !.pp.maneuver = @ + 1,
                                   !.pp.pivotting = TRUE]
              ELSE b4
    IN  IF past(b5, 9) /\ b5.pp.checkpoint < 6
        THEN [b5 EXCEPT !.pp.checkpoint = @ + 1,
                        !.sh.heading_setpoint = 180, !.sh.control_mode = 3,
                        !.pp.maneuver = @ + 1, !.pp.first = 1,
                        !.pp.state = PP_S6_SEG6]
        ELSE b5

\* lines 255-265
Path_S6(b) ==
    LET b1 == seg_started(b)
    IN  IF past(b1, 9)
        THEN [b1 EXCEPT !.pp.first = 1, !.pp.state = PP_S9_DONE]
        ELSE b1

\* lines 270-275
Path_S9(b) ==
    [b EXCEPT !.sh.abort = 1, !.sh.planning = 0, !.pp.state = PP_S0_INIT]

\* one resumption of PathPlanningTask.run after its first
PathPlanningTask_run(b) ==
    IF b.pp.state = PP_S0_INIT THEN Path_S0(b)
    ELSE IF b.pp.state = PP_S1_SEG1 THEN Path_S1(b)
    ELSE IF b.pp.state = PP_S2_SEG2 THEN Path_S2(b)
    ELSE IF b.pp.state = PP_S3_SEG3 THEN Path_S3(b)
    ELSE IF b.pp.state = PP_S4_SEG4 THEN Path_S4(b)
    ELSE IF b.pp.state = PP_S5_SEG5 THEN Path_S5(b)
    ELSE IF b.pp.state = PP_S6_SEG6 THEN Path_S6(b)
    ELSE IF b.pp.state = PP_S9_DONE THEN Path_S9(b)
    ELSE b

\* no kill command was handled since the last run command
NoKill == [killed |-> FALSE, streaming |-> FALSE, at |-> 0]

(***************************************************************************)
(* The end-to-end scheduler scenario of spec.md section 8: Task A          *)
(* (priority 3, period 10 ms) increments a shared counter, Task B          *)
(* (priority 1, period 100 ms) reads it.  The scheduler is the one of      *)
(* spec.md section 4.3.                                                    *)
(***************************************************************************)
\* the two tasks in registration order
TestTasks == <<"A", "B">>

TestNames == {TestTasks[i] : i \in 1..Len(TestTasks)}

TestPriority(t) == IF t = "A" THEN 3 ELSE 1

TestPeriod(t) == IF t = "A" THEN 10 ELSE 100

TestRegIndex(t) == CHOOSE i \in 1..Len(TestTasks) : TestTasks[i] = t

\* mutant: a pass scans the tasks in ascending priority
TestPrecedes_Ascending(u, t) ==
    \/ TestPriority(u) < TestPriority(t)
    \/ TestPriority(u) = TestPriority(t) /\ TestRegIndex(u) < TestRegIndex(t)

\* u is serviced before t: higher priority, or equal and registered earlier
TestPrecedes(u, t) ==
    \/ TestPriority(u) > TestPriority(t)
    \/ TestPriority(u) = TestPriority(t) /\ TestRegIndex(u) < TestRegIndex(t)

\* the order in which a pass scans the two tasks
TestOrder ==
    [i \in 1..Len(TestTasks) |->
        CHOOSE t \in TestNames :
            Cardinality({u \in TestNames : TestPrecedes(u, t)}) = i - 1]

\* a task is due when its period has elapsed since it last ran
TestDue(t, tickNow, last) == tickNow - last >= TestPeriod(t)

\* Task A: one more on the shared counter
TaskA_run(s) == [s EXCEPT !.counter = @ + 1]

\* Task B: reads the shared counter
TaskB_run(s) == [s EXCEPT !.seen = s.counter]

\* tick: length of a simulated tick (0: not chosen yet); pos: 0 between
\* passes, else the index into TestOrder
SimInit ==
    [tick |-> 0, now |-> 0, passNow |-> 0, pos |-> 0,
     last |-> [t \in TestNames |-> 0], runs |-> [t \in TestNames |-> 0],
     counter |-> 0, seen |-> -1]

(***************************************************************************)
(* main() before the scheduler loop: the calibration files                 *)
(* (src/main.py lines 115-128).  A text field is a sequence of characters, *)
(* a line a sequence of fields (what split(",") returns), a text file a    *)
(* sequence of lines; the IMU file is known by its length in bytes.        *)
(***************************************************************************)
\* float(v) on a field: digits with at most one point and at least one
\* digit; anything else is a ValueError.  The value is in tenths.
ParseFloat(cs) ==
    LET dots == {i \in 1..Len(cs) : cs[i] = "."}
        digs == {i \in 1..Len(cs) : IsDigit(cs[i])}
        dot == IF dots = {} THEN Len(cs) + 1 ELSE CHOOSE i \in dots : TRUE
    IN  IF Cardinality(dots) > 1 \/ digs = {}
           \/ Cardinality(dots) + Cardinality(digs) # Len(cs)
        THEN [ok |-> FALSE, val |-> 0]
        ELSE [ok |-> TRUE,
              val |-> 10 * DigitsVal(SubSeq(cs, 1, dot - 1))
                      + (IF dot < Len(cs) THEN DigitVal(cs[dot + 1]) ELSE 0)]

\* IRArray.num for the eleven pins of main.py line 103
IR_num == Cardinality(sensor_index)

\* calcsize(CALIB_PROFILE[1]): eleven 16-bit values
CalibProfileSize == 22

\* IRArray.__init__ lines 43-44
IRDefault == [i \in 1..IR_num |-> 0]

\* IRArray.set_calibration (src/IR_sensor.py lines 93-106); a is the array's
\* black and white lists, lines what readlines() returns
IRArray_set_calibration(a, lines) ==
    IF Len(lines) >= 2
    THEN LET black_vals == [i \in 1..Len(lines[1]) |-> ParseFloat(lines[1][i])]
             white_vals == [i \in 1..Len(lines[2]) |-> ParseFloat(lines[2][i])]
         IN  IF \E i \in 1..Len(black_vals) : ~black_vals[i].ok
             THEN [ir |-> a, raised |-> TRUE]
             ELSE IF \E i \in 1..Len(white_vals) : ~white_vals[i].ok
             THEN [ir |-> a, raised |-> TRUE]
             ELSE IF Len(black_vals) = IR_num /\ Len(white_vals) = IR_num
             THEN [ir |-> [black |-> [i \in 1..IR_num |-> black_vals[i].val],
                           white |-> [i \in 1..IR_num |-> white_vals[i].val]],
                   raised |-> FALSE]
             ELSE [ir |-> a, raised |-> FALSE]
    ELSE [ir |-> a, raised |-> FALSE]

\* IMU.write_calibration_coeffs (src/IMU_sensor.py lines 166-187); n is the
\* length of imu_cal.bin; written: the coefficients went to the IMU
IMU_write_calibration_coeffs(n) ==
    IF n # CalibProfileSize
    THEN [written |-> FALSE, raised |-> TRUE]
    ELSE [written |-> TRUE, raised |-> FALSE]

\* pc: "listdir", "imu", "ir", "sched" (the scheduler loop is reached),
\* "raised" (an exception left main())
BootInit ==
    [pc |-> "listdir", has_imu |-> FALSE, imu_len |-> 0, has_ir |-> FALSE,
     ir_lines |-> <<>>, imu_written |-> FALSE,
     cal |-> [black |-> IRDefault, white |-> IRDefault]]

ShareInit ==
    [eff |-> 0, mtr_enable |-> 0, motor_data_ready |-> 0, run_observer |-> 0,
     abort |-> 0, driving_mode |-> 0, setpoint |-> 0, kp |-> 0, ki |-> 0,
     control_mode |-> 0, start_time |-> 0, time_sh |-> 0,
     left_pos_sh |-> 0, right_pos_sh |-> 0, left_vel_sh |-> 0,
     right_vel_sh |-> 0, left_sp_sh |-> 0, right_sp_sh |-> 0,
     left_eff_sh |-> 0, right_eff_sh |-> 0, stream_data |-> 0,
     total_s_sh |-> 0, col_start |-> 0, col_done |-> 0,
     obsv_time_sh |-> 0, obsv_sL_sh |-> 0, obsv_sR_sh |-> 0,
     obsv_psi_sh |-> 0, obsv_psi_dot_sh |-> 0,
     k_line |-> 0, lf_target |-> 0, bias |-> 0, heading |-> 0,
     heading_setpoint |-> 0, k_heading |-> 0,
     ack_end |-> 0, ir_cmd |-> 0, planning |-> 0]

\* SteeringTask.__init__ (src/steering_task.py lines 53-63)
SteeringInit == [state |-> ST_S0_INIT]

\* no sensor of the IR array sees anything
IRDark == [total |-> 0, centroid |-> 0]

SpectatorInit ==
    [state |-> SP_S0_INIT, start_left_counts |-> 0, start_right_counts |-> 0,
     prev_left_counts |-> 0, prev_right_counts |-> 0]

DataInit == [state |-> DC_S0_INIT, pc |-> "top"]

\* everything but the encoders, the ADC pin and the Queues
InitRest ==
    /\ now = 0
    /\ sh = ShareInit
    /\ motor = [w \in Wheels |-> Motor_init]
    /\ turned = [w \in Wheels |-> 0]
    /\ ctl = [w \in Wheels |-> ClosedLoop_init]
    /\ bat = Battery_init
    /\ mcState = S0_INIT
    /\ t0 = 0
    /\ spec = SpectatorInit
    /\ dc = DataInit
    /\ lastRun = [t \in Tasks |-> 0]
    /\ passNow = 0
    /\ passPos = 0
    /\ resumed = <<>>
    /\ mainPc = "loop"
    /\ exc = "none"
    /\ qlog = [puts |-> <<>>, gets |-> <<>>]
    /\ hist = [hasRun |-> FALSE, ret |-> 0, at |-> 0]
    /\ steer = SteeringInit
    /\ ir = IRDark
    /\ ui = UIInit
    /\ rx = <<>>
    /\ tx = <<>>
    /\ stream = StreamInit
    /\ pp = PathInit
    /\ latch = NoKill
    /\ sim = SimInit
    /\ boot = BootInit
    /\ ev = [op |-> "init"]

InitCommon ==
    /\ InitRest
    /\ enc = [w \in Wheels |-> Encoder_init]

(***************************************************************************)
(* Steps of the tasks.  Each is one resumption of the task's generator and *)
(* leaves the scheduler's variables to the caller.                         *)
(***************************************************************************)
Running == mainPc = "loop" /\ exc = "none"

MotorBundle ==
    [state |-> mcState, motor |-> motor, enc |-> enc, ctl |-> ctl,
     bat |-> bat, sh |-> sh, t0 |-> t0,
     passes |-> 0, cont |-> FALSE, raised |-> FALSE]

\* MotorControlTask.run resumed once; an exception leaves the generator
MotorControlTask_run ==
    LET m == MotorResume(MotorBundle, now, adc)
    IN  /\ mcState' = m.state
        /\ motor' = m.motor
        /\ enc' = m.enc
        /\ turned' = IF m.enc = enc THEN turned ELSE [w \in Wheels |-> 0]
        /\ ctl' = m.ctl
        /\ bat' = m.bat
        /\ sh' = m.sh
        /\ t0' = m.t0
        /\ exc' = IF m.raised THEN "err" ELSE "none"
        /\ mainPc' = IF m.raised THEN "except" ELSE mainPc
        /\ UNCHANGED <<spec, dc, queues, qlog, hist, TaskVars, adc, now>>

\* what a resumption of MotorControlTask from the current state does
MotorEvent ==
    [op |-> "motor", from |-> mcState, abort |-> sh.abort,
     enable |-> sh.mtr_enable, left_sp |-> sh.left_sp_sh,
     passes |-> MotorResume(MotorBundle, now, adc).passes]

SpectatorBundle ==
    [state |-> spec.state,
     start_left_counts |-> spec.start_left_counts,
     start_right_counts |-> spec.start_right_counts,
     prev_left_counts |-> spec.prev_left_counts,
     prev_right_counts |-> spec.prev_right_counts,
     sh |-> sh, passes |-> 0, cont |-> FALSE]

\* SpectatorTask.run resumed once
SpectatorTask_run ==
    LET p == SpectatorResume(SpectatorBundle)
    IN  /\ spec' = [state |-> p.state,
                    start_left_counts |-> p.start_left_counts,
                    start_right_counts |-> p.start_right_counts,
                    prev_left_counts |-> p.prev_left_counts,
                    prev_right_counts |-> p.prev_right_counts]
        /\ sh' = p.sh
        /\ UNCHANGED <<mcState, motor, enc, turned, ctl, bat, t0, exc,
                       mainPc, dc, queues, qlog, hist, TaskVars, adc, now>>

\* the log of time_q after a put of v that took the queue from q0 to q1
LogPut(log, q0, q1, v) ==
    IF q1.count = q0.count THEN log
    ELSE IF q0.count = 0 THEN [puts |-> <<v>>, gets |-> <<>>]
    ELSE [log EXCEPT !.puts = Append(@, v)]

EmptyLog == [puts |-> <<>>, gets |-> <<>>]

\* DataCollectionTask.run resumed once
DataCollectionTask_run ==
    LET d == DataResume([state |-> dc.state, pc |-> dc.pc, queues |-> queues,
                         sh |-> sh, passes |-> 0])
    IN  /\ dc' = [state |-> d.state, pc |-> d.pc]
        /\ queues' = d.queues
        /\ sh' = d.sh
        /\ qlog' = IF dc.pc = "top" /\ dc.state = DC_S0_INIT THEN EmptyLog
                   ELSE LogPut(qlog, queues["time_q"], d.queues["time_q"],
                               sh.time_sh)
        /\ UNCHANGED <<mcState, motor, enc, turned, ctl, bat, t0, exc,
                       mainPc, spec, adc, now, hist, TaskVars>>

DataBundle ==
    [state |-> dc.state, pc |-> dc.pc, queues |-> queues, sh |-> sh,
     passes |-> 0]

DataEvent ==
    [op |-> "data", from |-> dc.state, passes |-> DataResume(DataBundle).passes]

SpectatorEvent ==
    [op |-> "spectator", from |-> spec.state,
     passes |-> SpectatorResume(SpectatorBundle).passes]

SchedVars == <<lastRun, passNow, passPos, resumed>>

\* main(): an exception that left pri_sched reaches the except clauses
MainExcept ==
    /\ mainPc = "except"
    /\ LET h == MainHandler(exc, motor)
       IN  /\ motor' = h.motor
           /\ mainPc' = h.pc
           /\ exc' = IF h.pc = "loop" THEN "none" ELSE exc
    /\ ev' = [op |-> "except", exc |-> exc,
              wasEnabled |-> motor["L"].enabled \/ motor["R"].enabled]
    /\ UNCHANGED <<now, sh, enc, turned, ctl, bat, adc, mcState, t0, spec,
                   dc, queues, qlog, hist, TaskVars, SchedVars>>

\* the clock advances by d, up to max
Tick(d, max) ==
    /\ Running
    /\ now + d <= max
    /\ now' = now + d
    /\ ev' = [op |-> "env"]
    /\ UNCHANGED <<sh, motor, enc, turned, ctl, bat, adc, mcState, t0, spec,
                   dc, queues, qlog, hist, TaskVars, SchedVars, mainPc, exc>>

\* the wheel w turns by d counts between two reads of its counter: the
\* hardware counter follows modulo AR+1
Rotate(w, d, maxPos) ==
    /\ Running
    /\ turned[w] = 0
    /\ Abs(enc[w].position_counts + d) <= maxPos
    /\ enc' = [enc EXCEPT ![w].counter = (enc[w].counter + d) % (AR + 1)]
    /\ turned' = [turned EXCEPT ![w] = turned[w] + d]
    /\ ev' = [op |-> "env"]
    /\ UNCHANGED <<now, sh, motor, ctl, bat, adc, mcState, t0, spec, dc,
                   queues, qlog, hist, TaskVars, SchedVars, mainPc, exc>>

\* the battery voltage at the ADC pin changes, or the ADC starts failing
AdcChange(v) ==
    /\ Running
    /\ adc # v
    /\ adc' = v
    /\ ev' = [op |-> "env"]
    /\ UNCHANGED <<now, sh, motor, enc, turned, ctl, bat, mcState, t0, spec,
                   dc, queues, qlog, hist, TaskVars, SchedVars, mainPc, exc>>

\* another task (UI, steering, path planning) puts values into Shares in
\* one of its resumptions; w maps the Shares written to the values put
SharesPut(w) ==
    /\ Running
    /\ \E n \in DOMAIN w : sh[n] # w[n]
    /\ sh' = [n \in DOMAIN sh |-> IF n \in DOMAIN w THEN w[n] ELSE sh[n]]
    /\ ev' = [op |-> "env"]
    /\ UNCHANGED <<now, motor, enc, turned, ctl, bat, adc, mcState, t0, spec,
                   dc, queues, qlog, hist, TaskVars, SchedVars, mainPc, exc>>

(***************************************************************************)
(* SpecMotor: MotorControlTask resumed at arbitrary                        *)
(* times while the other tasks write the command Shares, the clock        *)
(* advances and the battery ADC changes.                                   *)
(***************************************************************************)
MotorTicks == {500}
MotorMaxTime == 500
AdcValues == {78, AdcFail}

\* what the other tasks put into the command Shares: the flags and modes
\* one by one, and the 'e', 'v' and 'l' commands of UITask (src/ui_task.py
\* lines 177-234), which write their parameters and the control mode together.
\* The driving mode is written by UITask's INIT state (line 112) and by
\* PathPlanningTask (src/path_planning_task.py line 81), both with the value
\* 1.
MotorCommands ==
    <<[abort |-> 0], [abort |-> 1], [mtr_enable |-> 0], [mtr_enable |-> 1],
      [control_mode |-> 0], [control_mode |-> 1], [control_mode |-> 2],
      [driving_mode |-> 1],
      [eff |-> 50, control_mode |-> 0],
      [setpoint |-> 5, kp |-> 30, ki |-> 0, control_mode |-> 1],
      [kp |-> 30, ki |-> 0, control_mode |-> 2]>>

InitMotor ==
    /\ InitCommon
    /\ adc = 78
    /\ queues = [n \in QueueNames |-> Queue_new(1)]

MotorStep ==
    /\ Running
    /\ MotorControlTask_run
    /\ ev' = MotorEvent
    /\ UNCHANGED SchedVars

MotorEnv ==
    \/ \E d \in MotorTicks : Tick(d, MotorMaxTime)
    \/ \E v \in AdcValues : AdcChange(v)
    \/ \E i \in 1..Len(MotorCommands) : SharesPut(MotorCommands[i])

NextMotor == MotorStep \/ MotorEnv \/ MainExcept

SpecMotor == InitMotor /\ [][NextMotor]_vars

\* C1: a MotorControlTask resumption that starts in RUN with the abort Share
\* set ends in WAIT_FOR_ENABLE with both motors disabled, whatever the other
\* Shares hold.
C1_AbortStopsMotors ==
    (ev.op = "motor" /\ ev.from = S2_RUN /\ ev.abort # 0)
        => /\ mcState = S1_WAIT_FOR_ENABLE
           /\ ~motor["L"].enabled
           /\ ~motor["R"].enabled

\* an abort taken while line following in pivot mode, with the enable Share
\* set again by another task before the motor task ran
C1_Witness ==
    /\ ev.op = "motor" /\ ev.from = S2_RUN /\ ev.abort # 0
    /\ sh.control_mode = 2 /\ sh.driving_mode = 1
    /\ mcState = S1_WAIT_FOR_ENABLE
    /\ ~motor["L"].enabled /\ ~motor["R"].enabled

(***************************************************************************)
(* SpecFSM: the three generator tasks resumed in any order while another   *)
(* task sets and clears the enable, abort and collection-start flags.      *)
(***************************************************************************)
FlagPuts ==
    <<[abort |-> 0], [abort |-> 1], [mtr_enable |-> 0], [mtr_enable |-> 1],
      [col_start |-> 0], [col_start |-> 1]>>

InitFSM ==
    /\ InitCommon
    /\ adc = 78
    /\ \E c \in 1..MaxCap : queues = [n \in QueueNames |-> Queue_new(c)]

SpectatorStep ==
    /\ Running
    /\ SpectatorTask_run
    /\ ev' = SpectatorEvent
    /\ UNCHANGED SchedVars

DataStep ==
    /\ Running
    /\ DataCollectionTask_run
    /\ ev' = DataEvent
    /\ UNCHANGED SchedVars

FlagPut == \E i \in 1..Len(FlagPuts) : SharesPut(FlagPuts[i])

NextFSM == MotorStep \/ SpectatorStep \/ DataStep \/ FlagPut

SpecFSM == InitFSM /\ [][NextFSM]_vars

\* C5: every resumption of a task generator makes exactly one pass through
\* the FSM dispatch before it yields.
C5_OnePassPerResumption ==
    ev.op \in {"motor", "spectator", "data"} => ev.passes = 1

(***************************************************************************)
(* SpecMain: the scheduler loop of main().  A pass reads the clock, scans  *)
(* the tasks in SchedOrder and resumes those that are due; the clock       *)
(* advances while it does.  Any resumption may raise, and Ctrl-C may       *)
(* arrive at any point of the loop.                                        *)
(***************************************************************************)
SchedTicks == {20}
SchedMaxTime == 120
NTasks == Len(TaskList)

InitMain ==
    /\ InitCommon
    /\ adc = 78
    /\ queues = [n \in QueueNames |-> Queue_new(1)]

PassBegin ==
    /\ Running
    /\ passPos = 0
    /\ passNow' = now
    /\ passPos' = 1
    /\ resumed' = <<>>
    /\ ev' = [op |-> "begin"]
    /\ UNCHANGED <<now, sh, motor, enc, turned, ctl, bat, adc, mcState, t0,
                   spec, dc, queues, qlog, hist, TaskVars, lastRun, mainPc, exc>>

PassEnd ==
    /\ Running
    /\ passPos = NTasks + 1
    /\ passPos' = 0
    /\ ev' = [op |-> "end"]
    /\ UNCHANGED <<now, sh, motor, enc, turned, ctl, bat, adc, mcState, t0,
                   spec, dc, queues, qlog, hist, TaskVars, lastRun, passNow, resumed, mainPc,
                   exc>>

\* the task the pass is looking at
AtTask(t) == Running /\ passPos \in 1..NTasks /\ SchedOrder[passPos] = t

\* a task that is not due is passed over
SchedSkip ==
    \E t \in Tasks :
        /\ AtTask(t)
        /\ ~Due(t, passNow, lastRun[t])
        /\ passPos' = passPos + 1
        /\ ev' = [op |-> "skip", task |-> t]
        /\ UNCHANGED <<now, sh, motor, enc, turned, ctl, bat, adc, mcState,
                       t0, spec, dc, queues, qlog, hist, TaskVars, lastRun, passNow, resumed,
                       mainPc, exc>>

\* the bookkeeping of resuming the due task t
Resumed(t) ==
    /\ AtTask(t)
    /\ Due(t, passNow, lastRun[t])
    /\ lastRun' = [lastRun EXCEPT ![t] = now]
    /\ resumed' = Append(resumed, t)
    /\ passPos' = passPos + 1
    /\ ev' = [op |-> "resume", task |-> t, elapsed |-> passNow - lastRun[t]]
    /\ UNCHANGED passNow

ResumeMotor == Resumed("motor") /\ MotorControlTask_run

ResumeSpectator == Resumed("spectator") /\ SpectatorTask_run

ResumeUI ==
    /\ Resumed("ui")
    /\ \E cmd \in {"", "r", "k"} : sh' = UITask_command(sh, cmd)
    /\ UNCHANGED <<now, motor, enc, turned, ctl, bat, adc, mcState, t0, spec,
                   dc, queues, qlog, hist, TaskVars, mainPc, exc>>

\* the tasks whose bodies are outside this model
ResumeOther ==
    \E t \in {"stream", "steering", "gc", "path"} :
        /\ Resumed(t)
        /\ UNCHANGED <<now, sh, motor, enc, turned, ctl, bat, adc, mcState,
                       t0, spec, dc, queues, qlog, hist, TaskVars, mainPc, exc>>

\* the resumption of a due task raises an unexpected exception
TaskFault ==
    \E t \in Tasks :
        /\ AtTask(t)
        /\ Due(t, passNow, lastRun[t])
        /\ exc' = "err"
        /\ mainPc' = "except"
        /\ ev' = [op |-> "fault", task |-> t]
        /\ UNCHANGED <<now, sh, motor, enc, turned, ctl, bat, adc, mcState,
                       t0, spec, dc, queues, qlog, hist, TaskVars, SchedVars>>

\* Ctrl-C: KeyboardInterrupt is raised inside pri_sched
Interrupt ==
    /\ Running
    /\ passPos # 0
    /\ exc' = "kbd"
    /\ mainPc' = "except"
    /\ ev' = [op |-> "interrupt"]
    /\ UNCHANGED <<now, sh, motor, enc, turned, ctl, bat, adc, mcState, t0,
                   spec, dc, queues, qlog, hist, TaskVars, SchedVars>>

NextMain ==
    \/ PassBegin
    \/ SchedSkip
    \/ ResumeMotor
    \/ ResumeSpectator
    \/ ResumeUI
    \/ ResumeOther
    \/ PassEnd
    \/ \E d \in SchedTicks : Tick(d, SchedMaxTime)
    \/ TaskFault
    \/ Interrupt
    \/ MainExcept

SpecMain == InitMain /\ [][NextMain]_vars

BothDisabled(mot) == ~mot["L"].enabled /\ ~mot["R"].enabled

\* C2: an exception that reaches the except clauses of main() leaves with
\* both motors disabled; anything but KeyboardInterrupt is re-raised, Ctrl-C
\* exits the loop, and in both cases the scheduler does not run again.
C2_FaultStopsMotorsAndLoop ==
    [][ /\ mainPc = "except" =>
            /\ BothDisabled(motor')
            /\ mainPc' = IF exc = "kbd" THEN "exited" ELSE "raised"
        /\ (exc = "none" /\ exc' # "none") => mainPc' = "except"
        /\ mainPc \in {"raised", "exited"} => FALSE ]_vars

\* an unexpected exception was re-raised while the motors were running
C2_Witness ==
    /\ mainPc = "raised"
    /\ ev.op = "except" /\ ev.exc = "err" /\ ev.wasEnabled
    /\ BothDisabled(motor)

Pos(seq, t) == CHOOSE i \in 1..Len(seq) : seq[i] = t
InSeq(seq, t) == \E i \in 1..Len(seq) : seq[i] = t

\* C3: the tasks resumed in one pass are in descending priority order, equal
\* priorities in registration order; with the tasks of main.py: Motor Control
\* before Steering before Spectator before Path Planning.
C3_PriorityThenRegistrationOrder ==
    /\ \A i, j \in 1..Len(resumed) :
          i < j => \/ Priority(resumed[i]) > Priority(resumed[j])
                   \/ /\ Priority(resumed[i]) = Priority(resumed[j])
                      /\ RegIndex(resumed[i]) < RegIndex(resumed[j])
    /\ \A k \in 1..3 :
          LET order == <<"motor", "steering", "spectator", "path">>
          IN  (InSeq(resumed, order[k]) /\ InSeq(resumed, order[k + 1]))
                 => Pos(resumed, order[k]) < Pos(resumed, order[k + 1])

\* a pass in which all four were due
C3_Witness ==
    resumed = <<"motor", "steering", "spectator", "path", "stream">>

\* C4: in a pass no task is resumed twice, a task is resumed only when the
\* time read at the start of the pass is at least its period after its last
\* run (40 ms for the Steering task of main.py), and passing over a task that
\* is not due changes nothing of it.
C4_ResumedOnlyWhenDueOncePerPass ==
    [][ /\ \A i, j \in 1..Len(resumed') : resumed'[i] = resumed'[j] => i = j
        /\ ev'.op = "resume" =>
              /\ ev'.elapsed >= Period(ev'.task)
              /\ ev'.task = "steering" => ev'.elapsed >= 40
              /\ lastRun'[ev'.task] = now
        /\ ev'.op = "skip" =>
              /\ passNow - lastRun[ev'.task] < Period(ev'.task)
              /\ UNCHANGED <<lastRun, resumed, sh, motor, enc, ctl, bat,
                             mcState, t0, spec, dc, queues>> ]_vars

\* the steering task (period 40) passed over 20 ms after its last run, in a
\* pass that resumed the motor task
C4_Witness ==
    /\ ev.op = "skip" /\ ev.task = "steering"
    /\ resumed = <<"motor">>
    /\ passNow - lastRun["steering"] = 20
    /\ lastRun["steering"] > 0

(***************************************************************************)
(* SpecQueue: one Queue (time_q) of any capacity up to MaxCap, with puts,  *)
(* gets and clears in any order.  qlog keeps what was put and got since    *)
(* the queue was last empty.                                               *)
(***************************************************************************)
QueueValues == {1, 2}

InitQueue ==
    /\ InitCommon
    /\ adc = 78
    /\ \E c \in 1..MaxCap : queues = [n \in QueueNames |-> Queue_new(c)]

OtherVars ==
    <<now, sh, motor, enc, turned, ctl, bat, adc, mcState, t0, spec, dc,
      SchedVars, mainPc, exc>>

QPut ==
    \E v \in QueueValues :
        LET q == queues["time_q"]
            r == Queue_put(q, v)
        IN  /\ Len(qlog.puts) < MaxLog
            /\ queues' = [queues EXCEPT !["time_q"] = r.q]
            /\ qlog' = IF ~r.ok THEN qlog
                       ELSE IF ~Queue_any(q) THEN [puts |-> <<v>>, gets |-> <<>>]
                       ELSE [qlog EXCEPT !.puts = Append(@, v)]
            /\ ev' = [op |-> "qput", val |-> v, full |-> Queue_full(q),
                      ok |-> r.ok, before |-> q]
            /\ UNCHANGED <<OtherVars, hist, TaskVars>>

\* get on a queue that holds something (get on an empty queue has no value
\* to return)
QGet ==
    LET q == queues["time_q"]
        r == Queue_get(q)
    IN  /\ Queue_any(q)
        /\ queues' = [queues EXCEPT !["time_q"] = r.q]
        /\ qlog' = [qlog EXCEPT !.gets = Append(@, r.val)]
        /\ ev' = [op |-> "qget", val |-> r.val]
        /\ UNCHANGED <<OtherVars, hist, TaskVars>>

QClear ==
    /\ Queue_any(queues["time_q"])
    /\ queues' = [queues EXCEPT !["time_q"] = Queue_clear(@)]
    /\ qlog' = EmptyLog
    /\ ev' = [op |-> "qclear"]
    /\ UNCHANGED <<OtherVars, hist, TaskVars>>

NextQueue == QPut \/ QGet \/ QClear

SpecQueue == InitQueue /\ [][NextQueue]_vars

\* C6: the values got from a Queue are the values put into it, in the order
\* they were put: after N <= C puts into an empty Queue of capacity C, N gets
\* return those N values in that order.
C6_QueueIsFifo ==
    /\ Len(qlog.gets) <= Len(qlog.puts)
    /\ qlog.gets = SubSeq(qlog.puts, 1, Len(qlog.gets))
    /\ Queue_num_in(queues["time_q"]) = Len(qlog.puts) - Len(qlog.gets)

\* MaxCap values, not all equal, put into an empty queue of capacity MaxCap
\* and all got back
C6_Witness ==
    /\ queues["time_q"].cap = MaxCap
    /\ Len(qlog.puts) = MaxCap
    /\ qlog.gets = qlog.puts
    /\ qlog.puts[1] # qlog.puts[MaxCap]
    /\ ev.op = "qget"

\* C7: a put on a full Queue reports failure and changes nothing: count,
\* stored values and their order stay as they were.
C7_PutOnFullRejected ==
    (ev.op = "qput" /\ ev.full)
        => /\ ~ev.ok
           /\ queues["time_q"] = ev.before
           /\ Queue_num_in(queues["time_q"]) = queues["time_q"].cap
           /\ Queue_contents(queues["time_q"]) = Queue_contents(ev.before)

\* a value different from the oldest one rejected by a full queue of
\* capacity MaxCap
C7_Witness ==
    /\ ev.op = "qput" /\ ev.full /\ ~ev.ok
    /\ queues["time_q"].cap = MaxCap
    /\ Queue_contents(queues["time_q"])[1] # ev.val

(***************************************************************************)
(* SpecEnc: the left encoder read once per period of the motor task while  *)
(* the wheel turns by up to half the counter's range between two reads.    *)
(***************************************************************************)
HalfRange == (AR + 1) \div 2
EncStarts == {0, 40000, 65530}
EncTurns == {-HalfRange, 1 - HalfRange, -11, 11, HalfRange - 1, HalfRange}
EncPeriods == {20}
EncMaxTime == 60

\* the timer counter holds any value when the Encoder is constructed
InitEnc ==
    /\ InitRest
    /\ adc = 78
    /\ queues = [n \in QueueNames |-> Queue_new(1)]
    /\ \E c \in EncStarts :
          enc = [w \in Wheels |->
                    [Encoder_init EXCEPT !.counter = c, !.prev_count = c]]

EncRotate == \E d \in EncTurns : Rotate("L", d, MaxPos)

\* update() at the task's next period
EncUpdate ==
    \E d \in EncPeriods :
        /\ Running
        /\ now + d <= EncMaxTime
        /\ now' = now + d
        /\ enc' = [w \in Wheels |-> Encoder_update(enc[w], now + d)]
        /\ turned' = [w \in Wheels |-> 0]
        /\ ev' = [op |-> "enc_update", d |-> turned["L"],
                  added |-> enc'["L"].position_counts
                              - enc["L"].position_counts,
                  prev |-> enc["L"].prev_count, curr |-> enc["L"].counter]
        /\ UNCHANGED <<sh, motor, ctl, bat, adc, mcState, t0, spec, dc, queues,
                       qlog, hist, TaskVars, SchedVars, mainPc, exc>>

EncZero ==
    /\ Running
    /\ enc["L"].position_counts # 0
    /\ enc' = [w \in Wheels |-> Encoder_zero(enc[w], now)]
    /\ turned' = [w \in Wheels |-> 0]
    /\ ev' = [op |-> "enc_zero"]
    /\ UNCHANGED <<now, sh, motor, ctl, bat, adc, mcState, t0, spec, dc,
                   queues, qlog, hist, TaskVars, SchedVars, mainPc, exc>>

NextEnc == EncRotate \/ EncUpdate \/ EncZero

SpecEnc == InitEnc /\ [][NextEnc]_vars

\* C8 as stated: update() adds the true displacement d whenever
\* |d| <= (AR+1)/2, the boundary included.
C8_ExactUpToHalfRangeInclusive ==
    (ev.op = "enc_update" /\ Abs(ev.d) <= HalfRange) => ev.added = ev.d

\* C8: update() adds the true displacement d whenever |d| < (AR+1)/2; at
\* |d| = (AR+1)/2 the two directions give the same pair of counter values.
C8_ExactBelowHalfRange ==
    (ev.op = "enc_update" /\ Abs(ev.d) < HalfRange) => ev.added = ev.d

\* the example of the claim: prev = 65530, curr = 5 adds +11
C8_Witness ==
    /\ ev.op = "enc_update"
    /\ ev.prev = 65530 /\ ev.curr = 5
    /\ ev.d = 11 /\ ev.added = 11

(***************************************************************************)
(* SpecCL: the left ClosedLoop controller called with its Shares, the      *)
(* battery and the clock under the control of its callers: run(fb) and     *)
(* reset() at any time, battery.refresh(), puts to the setpoint and gain   *)
(* Shares, a changing battery voltage.                                     *)
(***************************************************************************)
CLTicks == {500, 1001}
CLMaxTime == 2002
CLFeedback == {0, 1440}
CLAdc == {78, 60}
CLPuts ==
    <<[left_sp_sh |-> 0], [left_sp_sh |-> 5], [kp |-> 10, ki |-> 0],
      [kp |-> 30, ki |-> 1]>>

InitCL ==
    /\ InitCommon
    /\ adc = 78
    /\ queues = [n \in QueueNames |-> Queue_new(1)]

CLRun ==
    \E fb \in CLFeedback :
        LET c == ctl["L"]
            r == ClosedLoop_run(c, fb, sh.left_sp_sh, sh.kp, sh.ki, bat, adc,
                                now)
        IN  /\ Running
            /\ ctl' = [ctl EXCEPT !["L"] = r.ctl]
            /\ bat' = r.bat
            /\ hist' = IF r.raised THEN hist
                       ELSE [hasRun |-> TRUE, ret |-> r.ret, at |-> now]
            /\ ev' = [op |-> "cl_run", raised |-> r.raised, ret |-> r.ret,
                      held |-> r.held, dt |-> now - c.last_time,
                      hadRun |-> hist.hasRun, sinceRun |-> now - hist.at,
                      prevRet |-> hist.ret, integBefore |-> c.integrator]
            /\ UNCHANGED <<now, sh, motor, enc, turned, adc, mcState, t0, spec,
                           dc, queues, qlog, TaskVars, SchedVars, mainPc,
                           exc>>

CLReset ==
    /\ Running
    /\ ctl' = [ctl EXCEPT !["L"] = ClosedLoop_reset(@, now)]
    /\ ctl' # ctl
    /\ ev' = [op |-> "cl_reset"]
    /\ UNCHANGED <<now, sh, motor, enc, turned, bat, adc, mcState, t0, spec,
                   dc, queues, qlog, hist, TaskVars, SchedVars, mainPc, exc>>

\* battery.refresh(), as MotorControlTask calls it before a run
CLRefresh ==
    /\ Running
    /\ bat' = Battery_refresh(bat, adc).bat
    /\ bat' # bat
    /\ ev' = [op |-> "env"]
    /\ UNCHANGED <<now, sh, motor, enc, turned, ctl, adc, mcState, t0, spec,
                   dc, queues, qlog, hist, TaskVars, SchedVars, mainPc, exc>>

CLEnv ==
    \/ \E d \in CLTicks : Tick(d, CLMaxTime)
    \/ \E v \in CLAdc : AdcChange(v)
    \/ \E i \in 1..Len(CLPuts) : SharesPut(CLPuts[i])

NextCL == CLRun \/ CLReset \/ CLRefresh \/ CLEnv

SpecCL == InitCL /\ [][NextCL]_vars

\* what a held call must do: return the compared effort and leave the
\* integrator alone
HeldAs(prevEffort) ==
    /\ ev.ret = prevEffort
    /\ ctl["L"].integrator = ev.integBefore

\* C9 as stated: a run() called more than 1000 ms after the previous run()
\* call returns the effort that call returned and leaves the integrator
\* unchanged (looked at for the calls that return).
C9_HoldAfterGapSinceRun ==
    (ev.op = "cl_run" /\ ~ev.raised /\ ev.hadRun /\ ev.sinceRun > StallMs)
        => HeldAs(ev.prevRet)

\* C9: a run() called more than 1000 ms after last_time was set (by the
\* previous run() or by a later reset()) returns the effort run() last
\* returned, 0 if it never returned, and leaves the integrator unchanged.
C9_HoldAfterGapSinceLastTime ==
    (ev.op = "cl_run" /\ ev.dt > StallMs)
        => (~ev.raised /\ ev.held /\ HeldAs(ev.prevRet))

\* a non-zero effort held with a non-zero integrator
C9_Witness ==
    /\ ev.op = "cl_run" /\ ev.dt > StallMs /\ ev.hadRun /\ ev.held
    /\ ev.ret # 0 /\ ev.ret = ev.prevRet
    /\ ev.integBefore # 0 /\ ctl["L"].integrator = ev.integBefore

\* C10: every value run() returns lies in [effort_min, effort_max], on the
\* computed path and on the stall-hold path.
C10_EffortWithinLimits ==
    (ev.op = "cl_run" /\ ~ev.raised)
        => (effort_min <= ev.ret /\ ev.ret <= effort_max)

\* the lower limit returned on the stall-hold path, with a droop gain
\* above 1
C10_Witness ==
    /\ ev.op = "cl_run" /\ ~ev.raised /\ ev.held
    /\ ev.ret = effort_min
    /\ bat.cached_gain > 10

\* C11: after reset() the integrator is 0, the stored output (what a
\* stall-hold returns) is 0 and the timestamp is the time of the reset.
C11_ResetRestoresInitialState ==
    ev.op = "cl_reset"
        => /\ ctl["L"].integrator = 0
           /\ ctl["L"].output = 0
           /\ ctl["L"].last_output = 0
           /\ ctl["L"].last_time = now

\* what reset() leaves in both controllers at time t
BothReset(c, t) ==
    \A w \in Wheels :
        /\ c[w].integrator = 0
        /\ c[w].output = 0
        /\ c[w].last_time = t

\* C12: a MotorControlTask resumption that goes from WAIT_FOR_ENABLE to RUN,
\* or from RUN to WAIT_FOR_ENABLE, resets both controllers: zero integrator
\* and a timestamp of that moment.
C12_ResetOnEveryRunTransition ==
    (/\ ev.op = "motor"
     /\ \/ ev.from = S1_WAIT_FOR_ENABLE /\ mcState = S2_RUN
        \/ ev.from = S2_RUN /\ mcState = S1_WAIT_FOR_ENABLE)
        => BothReset(ctl, now)

\* C13: a RUN resumption that finds the abort Share set resets both
\* controllers, clears the run-observer and enable Shares and writes no other
\* Share; the encoders are not updated, no effort is commanded and the start
\* time is kept.
C13_AbortSkipsRunBody ==
    [][ (ev'.op = "motor" /\ ev'.from = S2_RUN /\ ev'.abort # 0)
          => /\ BothReset(ctl', now)
             /\ sh' = [sh EXCEPT !.run_observer = 0, !.mtr_enable = 0]
             /\ enc' = enc
             /\ t0' = t0
             /\ \A w \in Wheels : motor'[w].effort = 0 ]_vars

\* an abort taken 500 ms after the last sample: the data-ready flag and the
\* time Share still hold what the last normal RUN step wrote
C13_Witness ==
    /\ ev.op = "motor" /\ ev.from = S2_RUN /\ ev.abort # 0 /\ ev.enable = 1
    /\ sh.motor_data_ready = 1
    /\ sh.time_sh # now - t0
    /\ sh.mtr_enable = 0 /\ sh.run_observer = 0

\* C14: a RUN resumption that finds the enable Share cleared, with abort not
\* set, ends in WAIT_FOR_ENABLE.
C14_EnableClearLeavesRun ==
    (/\ ev.op = "motor" /\ ev.from = S2_RUN
     /\ ev.abort = 0 /\ ev.enable = 0
     /\ mainPc = "loop")
        => mcState = S1_WAIT_FOR_ENABLE

\* what zero() leaves in both encoders at time t
BothZeroed(e, t) ==
    \A w \in Wheels :
        /\ e[w].position_counts = 0
        /\ e[w].prev_count = e[w].counter
        /\ e[w].prev_time = t

\* C15: the resumption of MotorControlTask in INIT ends in WAIT_FOR_ENABLE
\* with both motors disabled, both encoders zeroed, both controllers reset and
\* the effort and enable Shares 0, whatever the Shares held before.
C15_InitEndsInWaitAllCleared ==
    (ev.op = "motor" /\ ev.from = S0_INIT)
        => /\ mcState = S1_WAIT_FOR_ENABLE
           /\ BothDisabled(motor)
           /\ BothZeroed(enc, now)
           /\ BothReset(ctl, now)
           /\ sh.eff = 0
           /\ sh.mtr_enable = 0

\* INIT run at 500 ms, after another task had set the enable Share and the
\* gains
C15_Witness ==
    /\ ev.op = "motor" /\ ev.from = S0_INIT /\ ev.enable = 1
    /\ now = 500
    /\ mcState = S1_WAIT_FOR_ENABLE
    /\ sh.mtr_enable = 0 /\ sh.eff = 0
    /\ sh.kp = 30

\* C16: a resumption in WAIT_FOR_ENABLE with the enable Share 0 stays there
\* with both motors disabled; with the enable Share set it zeroes both
\* encoders, stamps the start of the run, enables both motors, sets the
\* run-observer flag and ends in RUN, also when the battery read fails.
C16_WaitUntilEnabled ==
    (ev.op = "motor" /\ ev.from = S1_WAIT_FOR_ENABLE)
        => IF ev.enable = 0
           THEN mcState = S1_WAIT_FOR_ENABLE /\ BothDisabled(motor)
           ELSE /\ mcState = S2_RUN
                /\ \A w \in Wheels : motor[w].enabled
                /\ BothZeroed(enc, now)
                /\ t0 = now /\ sh.start_time = now
                /\ sh.run_observer = 1

\* the enable request handled at 500 ms while the battery ADC fails
C16_Witness ==
    /\ ev.op = "motor" /\ ev.from = S1_WAIT_FOR_ENABLE /\ ev.enable = 1
    /\ adc = AdcFail /\ now = 500
    /\ mcState = S2_RUN
    /\ motor["L"].enabled /\ motor["R"].enabled
    /\ sh.run_observer = 1

\* C17: after a battery read that failed while the enable request was handled
\* (no gain cached), a closed-loop RUN step still computes its efforts and no
\* exception leaves the task.
C17_NoGainMeansUnityGain ==
    (/\ ev.op = "motor" /\ ev.from = S2_RUN /\ ev.abort = 0
     /\ sh.control_mode # 0
     /\ bat.cached_gain = None)
        => /\ mainPc = "loop" /\ exc = "none"
           /\ sh.motor_data_ready = 1

UIToggleMode ==
    /\ Running
    /\ sh' = UITask_toggle_mode(sh)
    /\ sh' # sh
    /\ ev' = [op |-> "env"]
    /\ UNCHANGED <<now, motor, enc, turned, ctl, bat, adc, mcState, t0, spec,
                   dc, queues, qlog, hist, TaskVars, SchedVars, mainPc, exc>>

(***************************************************************************)
(* SpecModes: MotorControlTask resumed while UITask starts and stops runs, *)
(* selects control and driving modes, and SteeringTask publishes per-wheel *)
(* setpoints.                                                              *)
(***************************************************************************)
\* 'r' and 'k' (src/ui_task.py lines 238-264), 'e', 'v', 'l' (lines
\* 177-234), the driving mode written by UITask's INIT state and by
\* PathPlanningTask (value 1), and what SteeringTask publishes
\* (src/steering_task.py lines 77-82): zeros while it waits, a pair around the
\* target while it follows the line
ModeCommands ==
    <<[abort |-> 0, mtr_enable |-> 1, stream_data |-> 1],
      [abort |-> 1, mtr_enable |-> 0, stream_data |-> 0],
      [eff |-> 50, control_mode |-> 0],
      [setpoint |-> 5, kp |-> 30, ki |-> 0, control_mode |-> 1],
      [kp |-> 30, ki |-> 0, control_mode |-> 2],
      [driving_mode |-> 1],
      [left_sp_sh |-> 0, right_sp_sh |-> 0],
      [left_sp_sh |-> 3, right_sp_sh |-> 2]>>

ModeEnv ==
    \/ \E d \in MotorTicks : Tick(d, MotorMaxTime)
    \/ \E i \in 1..Len(ModeCommands) : SharesPut(ModeCommands[i])
    \/ UIToggleMode

NextModes == MotorStep \/ ModeEnv

SpecModes == InitMotor /\ [][NextModes]_vars

\* the driving modes as UITask announces them (src/ui_task.py line 273)
MODE_STRAIGHT == 1
MODE_PIVOT == 2
MODE_ARC == 3

\* the efforts the claim asks for: 0 is the value after INIT, which UITask
\* reads as straight (line 275)
SelectedSplit(mode, e) ==
    IF mode = 0 \/ mode = MODE_STRAIGHT THEN <<e, e>>
    ELSE IF mode = MODE_PIVOT THEN <<e, -e>>
    ELSE <<e, TruncDiv(e * RATIO10, 10)>>

\* C18: in RUN with control mode 0 the efforts commanded are (e, e) when the
\* driving mode selected is straight, (e, -e) when it is pivot and
\* (e, 0.6 e) when it is arc, e being the effort Share.
C18_OpenLoopSplitBySelectedMode ==
    (/\ ev.op = "motor" /\ ev.from = S2_RUN /\ ev.abort = 0
     /\ sh.control_mode = 0)
        => /\ <<sh.left_eff_sh, sh.right_eff_sh>>
                 = SelectedSplit(sh.driving_mode, sh.eff)
           /\ <<motor["L"].effort, motor["R"].effort>>
                 = SelectedSplit(sh.driving_mode, sh.eff)


\* C19: in RUN with control mode 1 a resumption puts the velocity setpoint
\* into both per-wheel setpoint Shares and runs both controllers against that
\* value in the same resumption, whatever SteeringTask had published before.
C19_VelocityModeUsesUserSetpoint ==
    [][(/\ ev'.op = "motor" /\ mcState = S2_RUN /\ sh.abort = 0
        /\ sh.control_mode = 1 /\ exc' = "none")
          => LET rl == ClosedLoop_run(ctl["L"], enc'["L"].velocity_counts_per_s, sh.setpoint,
                                      sh.kp, sh.ki, bat, adc, now)
                 rr == ClosedLoop_run(ctl["R"], enc'["R"].velocity_counts_per_s, sh.setpoint,
                                      sh.kp, sh.ki, rl.bat, adc, now)
             IN  /\ sh'.left_sp_sh = sh.setpoint
                 /\ sh'.right_sp_sh = sh.setpoint
                 /\ ctl' = [L |-> rl.ctl, R |-> rr.ctl]
                 /\ sh'.left_eff_sh = rl.ret
                 /\ sh'.right_eff_sh = rr.ret
                 /\ motor'["L"].effort = rl.ret
                 /\ motor'["R"].effort = rr.ret]_vars

\* a velocity-mode step taken after SteeringTask published (3, 2): both Shares
\* now hold the user setpoint 5 and the efforts are those of a setpoint of 5
C19_Witness ==
    /\ ev.op = "motor" /\ ev.from = S2_RUN /\ ev.abort = 0
    /\ ev.left_sp = 3
    /\ sh.control_mode = 1 /\ sh.setpoint = 5
    /\ sh.left_sp_sh = 5 /\ sh.right_sp_sh = 5
    /\ sh.left_eff_sh = 100 /\ sh.right_eff_sh = 100
    /\ exc = "none"

\* C20: in RUN with control mode 2 a resumption leaves both per-wheel setpoint
\* Shares as SteeringTask published them and runs each controller against
\* its own Share.
C20_LineFollowNeverWritesSetpoints ==
    [][(ev'.op = "motor" /\ mcState = S2_RUN /\ sh.control_mode = 2)
          => /\ sh'.left_sp_sh = sh.left_sp_sh
             /\ sh'.right_sp_sh = sh.right_sp_sh
             /\ (sh.abort = 0 /\ exc' = "none")
                   => LET rl == ClosedLoop_run(ctl["L"], enc'["L"].velocity_counts_per_s,
                                               sh.left_sp_sh, sh.kp, sh.ki,
                                               bat, adc, now)
                          rr == ClosedLoop_run(ctl["R"], enc'["R"].velocity_counts_per_s,
                                               sh.right_sp_sh, sh.kp, sh.ki,
                                               rl.bat, adc, now)
                      IN  /\ sh'.left_eff_sh = rl.ret
                          /\ sh'.right_eff_sh = rr.ret]_vars

\* a line-following step with the user setpoint at 5 and SteeringTask's pair
\* (3, 2): the pair is still there and each wheel's effort follows its own
C20_Witness ==
    /\ ev.op = "motor" /\ ev.from = S2_RUN /\ ev.abort = 0
    /\ sh.control_mode = 2 /\ sh.setpoint = 5
    /\ sh.left_sp_sh = 3 /\ sh.right_sp_sh = 2
    /\ sh.left_eff_sh = 90 /\ sh.right_eff_sh = 60
    /\ exc = "none"


(***************************************************************************)
(* SpecEffort: MotorControlTask resumed while the effort Share, a float    *)
(* (src/main.py line 144), holds values inside and outside [-100, 100].    *)
(***************************************************************************)
\* 'r' and 'k' (src/ui_task.py lines 238-264), efforts put into the float
\* Share with control mode 0, and a velocity command whose proportional term
\* alone is 150
EffortCommands ==
    <<[abort |-> 0, mtr_enable |-> 1, stream_data |-> 1],
      [abort |-> 1, mtr_enable |-> 0, stream_data |-> 0],
      [eff |-> 150, control_mode |-> 0],
      [eff |-> 0 - 150, control_mode |-> 0],
      [eff |-> 90, control_mode |-> 0],
      [setpoint |-> 5, kp |-> 30, ki |-> 0, control_mode |-> 1]>>

EffortEnv ==
    \/ \E d \in MotorTicks : Tick(d, MotorMaxTime)
    \/ \E i \in 1..Len(EffortCommands) : SharesPut(EffortCommands[i])
    \/ UIToggleMode

NextEffort == MotorStep \/ EffortEnv

SpecEffort == InitMotor /\ [][NextEffort]_vars

\* C21: the effort a motor holds is always within [-100, 100], in every
\* control mode, also when the effort Share is outside that range and after
\* the pivot or arc split.
C21_AppliedEffortWithinRange ==
    \A w \in Wheels : motor[w].effort >= 0 - 100 /\ motor[w].effort <= 100

\* an open-loop pivot step with the effort Share at 150: the split asks for
\* (150, -150) and the motors hold (100, -100)
C21_Witness ==
    /\ ev.op = "motor" /\ ev.from = S2_RUN /\ ev.abort = 0
    /\ sh.control_mode = 0 /\ sh.driving_mode = 1 /\ sh.eff = 150
    /\ sh.left_eff_sh = 150 /\ sh.right_eff_sh = 0 - 150
    /\ motor["L"].effort = 100 /\ motor["R"].effort = 0 - 100


(***************************************************************************)
(* SpecSteer: SteeringTask resumed while UITask and PathPlanningTask write *)
(* the control mode, the line-following parameters and the enable flag,    *)
(* the heading changes, and the IR array sees the line come and go.        *)
(***************************************************************************)
\* one resumption of SteeringTask
SteeringStep ==
    /\ Running
    /\ LET b == SteeringTask_run([state |-> steer.state, sh |-> sh,
                                  pub |-> FALSE], ir)
       IN  /\ steer' = [state |-> b.state]
           /\ sh' = b.sh
           /\ ev' = [op |-> "steer", from |-> steer.state,
                     mode |-> sh.control_mode, enable |-> sh.mtr_enable,
                     total |-> ir.total, pub |-> b.pub,
                     was |-> <<sh.left_sp_sh, sh.right_sp_sh>>]
    /\ UNCHANGED <<now, motor, enc, turned, ctl, bat, adc, mcState, t0, spec,
                   dc, queues, qlog, hist, ir, UIVars, StreamVars, pp, latch, sim, boot,
                   SchedVars, mainPc, exc>>

\* sums at and next to the two thresholds; the centroid is the leftmost,
\* the middle or the rightmost sensor
IRReadings ==
    {IRDark, [total |-> SeenEps, centroid |-> 6],
     [total |-> reacquire_thresh, centroid |-> 1],
     [total |-> reacquire_thresh + 1, centroid |-> 11],
     [total |-> 1000000, centroid |-> 6]}

\* the reflectance under the array changes
IRChange(r) ==
    /\ Running
    /\ ir' = r
    /\ ir' # ir
    /\ ev' = [op |-> "env"]
    /\ UNCHANGED <<now, sh, motor, enc, turned, ctl, bat, adc, mcState, t0,
                   spec, dc, queues, qlog, hist, steer, UIVars, StreamVars, pp,
                   latch, sim, boot, SchedVars, mainPc, exc>>

\* 'e' and 'v' leave line following, 'r' and 'k' set and clear the enable
\* flag, 'l' writes gain and target (src/ui_task.py lines 211-231);
\* PathPlanningTask writes the bias (src/path_planning_task.py line 128) and
\* starts heading control (lines 225-230 and 249-250); the heading Share
\* follows the IMU
SteerCommands ==
    <<[control_mode |-> 0], [control_mode |-> 1],
      [mtr_enable |-> 1], [mtr_enable |-> 0],
      [k_line |-> 2, lf_target |-> 4, control_mode |-> 2],
      [k_line |-> 0, lf_target |-> 0, control_mode |-> 2],
      [bias |-> 50],
      [k_heading |-> 6, lf_target |-> 4, heading_setpoint |-> 163,
       control_mode |-> 3],
      [heading_setpoint |-> 180, control_mode |-> 3],
      [heading |-> 133]>>

SteerEnv ==
    \/ \E i \in 1..Len(SteerCommands) : SharesPut(SteerCommands[i])
    \/ \E r \in IRReadings : IRChange(r)

NextSteer == SteeringStep \/ SteerEnv

SpecSteer == InitMotor /\ [][NextSteer]_vars

\* C22: from FOLLOW with line following selected and the motors enabled, a
\* step that does not see the line ends in LOST; from LOST with line
\* following selected, a step ends in FOLLOW when the sum of the normalized
\* readings exceeds 0.05 and in LOST when it does not.
C22_LostAndReacquire ==
    /\ (/\ ev.op = "steer" /\ ev.from = ST_S2_FOLLOW /\ ev.mode = 2
        /\ ev.enable # 0 /\ ev.total <= SeenEps)
          => steer.state = ST_S3_LOST
    /\ (ev.op = "steer" /\ ev.from = ST_S3_LOST /\ ev.mode = 2)
          => steer.state = IF ev.total > reacquire_thresh
                           THEN ST_S2_FOLLOW ELSE ST_S3_LOST

\* a step in LOST that finds the line again, its sum just above 0.05
C22_Witness ==
    /\ ev.op = "steer" /\ ev.from = ST_S3_LOST /\ ev.mode = 2
    /\ ev.total = reacquire_thresh + 1
    /\ steer.state = ST_S2_FOLLOW


\* the steps the FSM may take, besides staying where it is
SteerAllowed ==
    {<<ST_S0_INIT, ST_S1_WAIT_ENABLE>>, <<ST_S1_WAIT_ENABLE, ST_S2_FOLLOW>>,
     <<ST_S2_FOLLOW, ST_S3_LOST>>, <<ST_S3_LOST, ST_S2_FOLLOW>>,
     <<ST_S2_FOLLOW, ST_S1_WAIT_ENABLE>>, <<ST_S3_LOST, ST_S1_WAIT_ENABLE>>}

\* C23: SteeringTask's state is always INIT, WAIT_ENABLE, FOLLOW or LOST, it
\* changes only along the six listed transitions, and WAIT_ENABLE is left for
\* FOLLOW only when the control mode is line following.
C23_SteeringFourStates ==
    /\ steer.state \in {ST_S0_INIT, ST_S1_WAIT_ENABLE, ST_S2_FOLLOW,
                        ST_S3_LOST}
    /\ (ev.op = "steer" /\ steer.state # ev.from)
          => /\ <<ev.from, steer.state>> \in SteerAllowed
             /\ (ev.from = ST_S1_WAIT_ENABLE => ev.mode = 2)

\* C24: with the control mode not line following, a step from FOLLOW or from
\* LOST ends in WAIT_ENABLE with both per-wheel setpoints written as zero;
\* every step in WAIT_ENABLE writes both as zero.
C24_LeavingLineFollowingZeroes ==
    /\ (/\ ev.op = "steer" /\ ev.from \in {ST_S2_FOLLOW, ST_S3_LOST}
        /\ ev.mode # 2)
          => /\ steer.state = ST_S1_WAIT_ENABLE
             /\ ev.pub /\ sh.left_sp_sh = 0 /\ sh.right_sp_sh = 0
    /\ (ev.op = "steer" /\ ev.from = ST_S1_WAIT_ENABLE)
          => ev.pub /\ sh.left_sp_sh = 0 /\ sh.right_sp_sh = 0

\* a step from LOST, creeping at (2, 2), after the control mode went to 1
C24_Witness ==
    /\ ev.op = "steer" /\ ev.from = ST_S3_LOST /\ ev.mode = 1
    /\ ev.was = <<2, 2>>
    /\ steer.state = ST_S1_WAIT_ENABLE
    /\ sh.left_sp_sh = 0 /\ sh.right_sp_sh = 0

\* C25: in FOLLOW with line following selected and the enable Share clear, a
\* step publishes zero to both per-wheel setpoint Shares and stays in FOLLOW.
C25_SoftPausePublishesZero ==
    (/\ ev.op = "steer" /\ ev.from = ST_S2_FOLLOW /\ ev.mode = 2
     /\ ev.enable = 0)
        => /\ steer.state = ST_S2_FOLLOW
           /\ sh.left_sp_sh = 0 /\ sh.right_sp_sh = 0

\* C26: every value SteeringTask publishes has magnitude at most
\* target + line_gain * half_sensor_span, with the target and gain Shares as
\* they are when it publishes.
C26_PublishedWithinEnvelope ==
    (ev.op = "steer" /\ ev.pub)
        => /\ Abs(sh.left_sp_sh) <= sh.lf_target + sh.k_line * half_span
           /\ Abs(sh.right_sp_sh) <= sh.lf_target + sh.k_line * half_span


(***************************************************************************)
(* SpecAbort: UITask, MotorControlTask, StreamTask, SteeringTask and       *)
(* PathPlanningTask resumed in any order while run and kill commands       *)
(* arrive on the UART.                                                     *)
(***************************************************************************)
MaxRx == 1           \* most bytes waiting in the UART
MaxTx == 4           \* most items written to the UART

\* one resumption of UITask; latch remembers a kill handled while
\* MotorControlTask was in RUN, whether frames were being streamed then, and
\* how much had been written
UIStep ==
    /\ Running
    /\ Len(tx) < MaxTx
    /\ LET b == UITask_run([ui |-> ui, sh |-> sh, rx |-> rx, tx |-> tx,
                            raised |-> FALSE, did |-> "none"], adc)
       IN  /\ ui' = b.ui
           /\ sh' = b.sh
           /\ rx' = b.rx
           /\ tx' = b.tx
           /\ exc' = IF b.raised THEN "err" ELSE "none"
           /\ mainPc' = IF b.raised THEN "except" ELSE mainPc
           /\ latch' = IF b.did = "r" THEN NoKill
                       ELSE IF b.did = "k" /\ mcState = S2_RUN
                       THEN [killed |-> TRUE,
                             streaming |-> /\ stream.state = STR_S2_STREAM_DATA
                                           /\ stream.lines_sent > 0,
                             at |-> Len(tx)]
                       ELSE latch
           /\ ev' = [op |-> "ui", from |-> ui.state, did |-> b.did,
                     nrx |-> Len(rx)]
    /\ UNCHANGED <<now, motor, enc, turned, ctl, bat, adc, mcState, t0, spec,
                   dc, queues, qlog, hist, SteerVars, stream, pp, sim, boot,
                   SchedVars>>

\* one resumption of StreamTask
StreamStep ==
    /\ Running
    /\ Len(tx) < MaxTx
    /\ LET b == StreamTask_run([stream |-> stream, sh |-> sh, tx |-> tx])
       IN  /\ stream' = b.stream
           /\ sh' = b.sh
           /\ tx' = b.tx
           /\ ev' = [op |-> "stream", from |-> stream.state,
                     abort |-> sh.abort, stream_data |-> sh.stream_data,
                     ready |-> sh.motor_data_ready,
                     sent_end |-> stream.sent_end, ntx |-> Len(tx)]
    /\ UNCHANGED <<now, motor, enc, turned, ctl, bat, adc, mcState, t0, spec,
                   dc, queues, qlog, hist, SteerVars, UIVars, pp, latch, sim, boot,
                   SchedVars, mainPc, exc>>

\* the Shares a segment of the path tunes
PathTuned(s) == <<s.control_mode, s.kp, s.ki, s.k_line, s.lf_target, s.bias>>

\* one resumption of PathPlanningTask
PathStep ==
    /\ Running
    /\ LET b == PathPlanningTask_run([pp |-> pp, sh |-> sh])
       IN  /\ pp' = b.pp
           /\ sh' = b.sh
           /\ ev' = [op |-> "path", from |-> pp.state,
                     planning |-> sh.planning, enable |-> sh.mtr_enable,
                     before |-> PathTuned(sh), total |-> sh.total_s_sh,
                     checkpoint |-> pp.checkpoint]
    /\ UNCHANGED <<now, motor, enc, turned, ctl, bat, adc, mcState, t0, spec,
                   dc, queues, qlog, hist, SteerVars, UIVars, StreamVars,
                   latch, sim, boot, SchedVars, mainPc, exc>>

\* a byte arrives on the UART
Rx(c) ==
    /\ Running
    /\ Len(rx) < MaxRx
    /\ rx' = Append(rx, c)
    /\ ev' = [op |-> "env"]
    /\ UNCHANGED <<now, sh, motor, enc, turned, ctl, bat, adc, mcState, t0,
                   spec, dc, queues, qlog, hist, SteerVars, ui, StreamVars,
                   pp, latch, sim, boot, SchedVars, mainPc, exc>>

AbortChars == {"r", "k"}

NextAbort ==
    \/ UIStep
    \/ MotorStep
    \/ StreamStep
    \/ SteeringStep
    \/ PathStep
    \/ \E c \in AbortChars : Rx(c)

SpecAbort == InitMotor /\ [][NextAbort]_vars

MotorsDisabled == \A w \in Wheels : ~motor[w].enabled

\* C27: once UITask has handled a kill while MotorControlTask was in RUN,
\* the next resumption of MotorControlTask ends with both motors disabled,
\* and they stay disabled until UITask handles a run command.
C27_KillStopsMotorsUntilRun ==
    latch.killed
        => /\ ev.op = "motor" => mcState = S1_WAIT_FOR_ENABLE
           /\ mcState # S2_RUN => MotorsDisabled

\* the first resumption of MotorControlTask after a kill: it was in RUN and
\* ends in WAIT_FOR_ENABLE with the motors off
C27_Witness ==
    /\ latch.killed
    /\ ev.op = "motor" /\ ev.from = S2_RUN
    /\ mcState = S1_WAIT_FOR_ENABLE
    /\ MotorsDisabled


\* the END marker was written after the kill
EndSinceKill ==
    \E i \in (latch.at + 1)..Len(tx) : tx[i] = TxEnd

\* C28: the abort Share, once set, is cleared only by UITask handling a run
\* command, and MotorControlTask and StreamTask never write it; so after an
\* abort raised while the motors ran and frames were streamed, the motor
\* task's resumption leaves the motors disabled and the stream task's
\* resumption leaves the END marker written, in either order.
C28_AbortLatchedBothAct ==
    /\ [][/\ (sh.abort # 0 /\ sh'.abort = 0)
                => (ev'.op = "ui" /\ ev'.did = "r")
          /\ ev'.op \in {"motor", "stream"} => sh'.abort = sh.abort]_vars
    /\ []((latch.killed /\ latch.streaming)
            => /\ ev.op = "motor" => MotorsDisabled
               /\ ev.op = "stream" => EndSinceKill)

\* the stream task resumed after the motor task, both after the kill: motors
\* off and END the last thing written
C28_Witness ==
    /\ latch.killed /\ latch.streaming
    /\ ev.op = "stream"
    /\ mcState = S1_WAIT_FOR_ENABLE /\ MotorsDisabled
    /\ tx[Len(tx)] = TxEnd
    /\ sh.abort = 1


(***************************************************************************)
(* SpecPath: PathPlanningTask resumed while the planning and enable flags  *)
(* are set and cleared, SpectatorTask's total displacement grows and the   *)
(* heading turns.                                                          *)
(***************************************************************************)
\* the planning flag set from outside, 'r' and 'k' as they leave the enable
\* and abort flags, displacements before and after the thresholds, headings
\* away from and at the pivot targets
PathCommands ==
    <<[planning |-> 1],
      [abort |-> 0, mtr_enable |-> 1], [abort |-> 1, mtr_enable |-> 0],
      [total_s_sh |-> 600], [total_s_sh |-> 5000],
      [heading |-> 163], [heading |-> 180]>>

NextPath ==
    \/ PathStep
    \/ \E i \in 1..Len(PathCommands) : SharesPut(PathCommands[i])

SpecPath == InitMotor /\ [][NextPath]_vars

\* C30: a PathPlanningTask step taken while the planning flag or the enable
\* flag is clear neither changes segment nor writes the control-mode, gain,
\* target or bias Shares.
C30_PathGatedOnBothFlags ==
    (ev.op = "path" /\ (ev.planning = 0 \/ ev.enable = 0))
        => /\ pp.state = ev.from
           /\ PathTuned(sh) = ev.before

\* the total displacement is beyond the last threshold
PastAll(total) == \A i \in 1..Len(threshold) : total > threshold[i]

\* C33: with the total displacement past every threshold, the path moves on
\* from each segment to the next and from DONE back to INIT, in the first
\* run and in every later one; in particular a step taken in SEG5 ends in
\* SEG6, so that DONE is reached.
C33_EveryRunReachesDone ==
    (ev.op = "path" /\ PastAll(ev.total))
        => /\ ev.from \in PP_S1_SEG1..PP_S4_SEG4 => pp.state = ev.from + 1
           /\ ev.from = PP_S5_SEG5 => pp.state = PP_S6_SEG6
           /\ ev.from = PP_S6_SEG6 => pp.state = PP_S9_DONE
           /\ ev.from = PP_S9_DONE => pp.state = PP_S0_INIT


(***************************************************************************)
(* SpecSim: the scheduler of spec.md section 4.3 running Task A and Task B *)
(* on a simulated clock.  Every tick of the clock is followed by one full  *)
(* pass.                                                                   *)
(***************************************************************************)
SimMaxTime == 120

\* tick lengths that bring the clock to every multiple of A's period
TickSizes == {1, 2, 5, 10}

\* everything but the scenario
SimRest == <<now, sh, motor, enc, turned, ctl, bat, adc, mcState, t0, spec,
             dc, queues, qlog, hist, SteerVars, UIVars, StreamVars, pp,
             latch, boot, SchedVars, mainPc, exc>>

\* the simulation is set up with a tick length
SimStart ==
    /\ sim.tick = 0
    /\ \E d \in TickSizes : sim' = [sim EXCEPT !.tick = d]
    /\ ev' = [op |-> "sim", what |-> "start"]
    /\ UNCHANGED SimRest

\* the clock advances one tick; the pass reads the time once and begins
SimTick ==
    /\ sim.tick > 0
    /\ sim.pos = 0
    /\ sim.now + sim.tick <= SimMaxTime
    /\ sim' = [sim EXCEPT !.now = @ + sim.tick,
                          !.passNow = sim.now + sim.tick,
                          !.pos = 1]
    /\ ev' = [op |-> "sim", what |-> "tick"]
    /\ UNCHANGED SimRest

\* the task the pass looks at is due: it is resumed once, and the time of
\* the resumption is recorded
SimResume ==
    /\ sim.pos \in 1..Len(TestTasks)
    /\ LET t == TestOrder[sim.pos]
           s == [sim EXCEPT !.last[t] = sim.now,
                            !.runs[t] = @ + 1,
                            !.pos = @ + 1]
       IN  /\ TestDue(t, sim.passNow, sim.last[t])
           /\ sim' = IF t = "A" THEN TaskA_run(s) ELSE TaskB_run(s)
           /\ ev' = [op |-> "sim", what |-> "resume", task |-> t]
    /\ UNCHANGED SimRest

\* a task that is not due is passed over
SimSkip ==
    /\ sim.pos \in 1..Len(TestTasks)
    /\ ~TestDue(TestOrder[sim.pos], sim.passNow, sim.last[TestOrder[sim.pos]])
    /\ sim' = [sim EXCEPT !.pos = @ + 1]
    /\ ev' = [op |-> "sim", what |-> "skip"]
    /\ UNCHANGED SimRest

\* the pass is over
SimPassEnd ==
    /\ sim.pos = Len(TestTasks) + 1
    /\ sim' = [sim EXCEPT !.pos = 0]
    /\ ev' = [op |-> "sim", what |-> "end"]
    /\ UNCHANGED SimRest

NextSim ==
    \/ SimStart
    \/ SimTick
    \/ SimResume
    \/ SimSkip
    \/ SimPassEnd

SpecSim == InitMotor /\ [][NextSim]_vars

\* C29: when the pass at 100 ms of simulated time is over, Task A has run
\* exactly 10 times, Task B exactly once, and B read the value 10
C29_TenRunsOfAOneOfB ==
    (sim.now = 100 /\ sim.pos = 0)
        => /\ sim.runs["A"] = 10
           /\ sim.runs["B"] = 1
           /\ sim.seen = 10

\* the pass at 100 ms is over on a clock of 1 ms ticks and B has read
C29_Witness ==
    /\ sim.now = 100
    /\ sim.pos = 0
    /\ sim.tick = 1
    /\ sim.runs["B"] = 1
    /\ sim.seen = sim.counter


(***************************************************************************)
(* SpecBoot: main() from listdir() to the scheduler loop, for every        *)
(* calibration file drawn from IMULens and IRFiles.                        *)
(***************************************************************************)
\* lengths of imu_cal.bin: empty, one short, right, one long
IMULens == {0, CalibProfileSize - 1, CalibProfileSize, CalibProfileSize + 1}

\* a line of n fields, all f, but for field k (0: none) which is g
IRLine(n, f, k, g) == [i \in 1..n |-> IF i = k THEN g ELSE f]

\* well-formed lines, a line one field short, a line with a non-numeric
\* field, an empty line (split gives one empty field)
IRFileLines ==
    {IRLine(IR_num, <<"3", "1", ".", "5">>, 0, <<>>),
     IRLine(IR_num, <<"7">>, 0, <<>>),
     IRLine(IR_num - 1, <<"7">>, 0, <<>>),
     IRLine(IR_num, <<"7">>, 2, <<"n", "a", "n", "e">>),
     IRLine(1, <<>>, 0, <<>>)}

MaxFileLines == 2

IRFiles ==
    UNION {[1..n -> IRFileLines] : n \in 0..MaxFileLines}

\* everything but the startup
BootRest == <<now, sh, motor, enc, turned, ctl, bat, adc, mcState, t0, spec,
              dc, queues, qlog, hist, SteerVars, UIVars, StreamVars, pp,
              latch, sim, SchedVars, mainPc, exc>>

\* line 115: listdir() finds what is on the flash
BootListdir ==
    /\ boot.pc = "listdir"
    /\ \E hi \in BOOLEAN, n \in IMULens, hr \in BOOLEAN, f \in IRFiles :
        /\ ~hi => n = 0
        /\ ~hr => f = <<>>
        /\ boot' = [boot EXCEPT !.pc = "imu", !.has_imu = hi, !.imu_len = n,
                                !.has_ir = hr, !.ir_lines = f]
    /\ ev' = [op |-> "boot", what |-> "listdir"]
    /\ UNCHANGED BootRest

\* lines 117-121; the ValueError is not caught and leaves main()
BootIMU ==
    /\ boot.pc = "imu"
    /\ LET r == IF boot.has_imu
                THEN IMU_write_calibration_coeffs(boot.imu_len)
                ELSE [written |-> FALSE, raised |-> FALSE]
       IN  boot' = [boot EXCEPT !.pc = IF r.raised THEN "raised" ELSE "ir",
                                !.imu_written = r.written]
    /\ ev' = [op |-> "boot", what |-> "imu"]
    /\ UNCHANGED BootRest

\* lines 124-128, then on to line 313
BootIR ==
    /\ boot.pc = "ir"
    /\ LET r == IF boot.has_ir
                THEN IRArray_set_calibration(boot.cal, boot.ir_lines)
                ELSE [ir |-> boot.cal, raised |-> FALSE]
       IN  boot' = [boot EXCEPT !.pc = IF r.raised THEN "raised" ELSE "sched",
                                !.cal = r.ir]
    /\ ev' = [op |-> "boot", what |-> "ir"]
    /\ UNCHANGED BootRest

NextBoot ==
    \/ BootListdir
    \/ BootIMU
    \/ BootIR

SpecBoot == InitMotor /\ [][NextBoot]_vars

\* the IR file has two lines of IR_num numeric fields each
IRFormatOK(lines) ==
    /\ Len(lines) >= 2
    /\ \A l \in 1..2 :
        /\ Len(lines[l]) = IR_num
        /\ \A i \in 1..Len(lines[l]) : ParseFloat(lines[l][i]).ok

WrongIR == boot.has_ir /\ ~IRFormatOK(boot.ir_lines)

WrongIMU == boot.has_imu /\ boot.imu_len # CalibProfileSize

\* C31: a calibration file that exists with the wrong format never aborts
\* startup: no exception leaves main(), and once the scheduler loop is
\* reached the IR calibration is the default one and nothing was written to
\* the IMU.
C31_WrongFormatKeepsDefaults ==
    /\ (WrongIR \/ WrongIMU) => boot.pc # "raised"
    /\ (WrongIR /\ boot.pc = "sched")
           => boot.cal = [black |-> IRDefault, white |-> IRDefault]
    /\ (WrongIMU /\ boot.pc = "sched") => ~boot.imu_written


\* the tasks resumed so far in the pass
ResumedSet == {resumed[i] : i \in 1..Len(resumed)}

\* C32: the pass of spec.md section 4.3 visits every task, so when a pass
\* ends every task that was due at the time the pass read has been resumed
\* in it, whether or not a task of higher priority was due as well.  A pass
\* in which a higher-priority task runs and a lower-priority due task is
\* passed over, the step a starving run is made of, does not exist under
\* SpecMain.
C32_DueTaskResumedInPass ==
    ev.op = "end"
        => \A t \in Tasks :
               t \in ResumedSet \/ ~Due(t, passNow, lastRun[t])

\* a pass ended in which a lower-priority task ran next to a higher-priority
\* one
C32_Witness ==
    /\ ev.op = "end"
    /\ \E t, u \in Tasks :
        /\ Priority(u) > Priority(t)
        /\ u \in ResumedSet
        /\ t \in ResumedSet


(***************************************************************************)
(* SpecOdo: MotorControlTask and SpectatorTask resumed in turn, the motor  *)
(* task first as in main.py (priority 3 against 2, both every 20 ms),      *)
(* while the wheels turn and UITask starts and kills runs.  passPos is 0   *)
(* when the motor task is next and 1 when the spectator is.                *)
(***************************************************************************)
OdoMaxPos == 200
OdoTurns == {100}

\* what 'r' and 'k' put (src/ui_task.py lines 238-264)
OdoCommands ==
    <<[abort |-> 0, mtr_enable |-> 1, stream_data |-> 1],
      [abort |-> 1, mtr_enable |-> 0, stream_data |-> 0]>>

OdoMotor ==
    /\ Running
    /\ passPos = 0
    /\ MotorControlTask_run
    /\ ev' = MotorEvent
    /\ passPos' = 1
    /\ UNCHANGED <<lastRun, passNow, resumed>>

OdoSpectator ==
    /\ Running
    /\ passPos = 1
    /\ SpectatorTask_run
    /\ ev' = SpectatorEvent
    /\ passPos' = 0
    /\ UNCHANGED <<lastRun, passNow, resumed>>

\* a wheel turns; the run ends before its counter has gone past OdoMaxPos
OdoRotate ==
    \E w \in Wheels, d \in OdoTurns :
        /\ enc[w].counter + d <= OdoMaxPos
        /\ Rotate(w, d, OdoMaxPos)

OdoCommand == \E i \in 1..Len(OdoCommands) : SharesPut(OdoCommands[i])

NextOdo ==
    \/ OdoMotor
    \/ OdoSpectator
    \/ OdoRotate
    \/ OdoCommand

SpecOdo == InitMotor /\ [][NextOdo]_vars

\* C34: a value SpectatorTask writes to the total-displacement Share while
\* estimating is the centre-line distance of the counts the two encoders
\* accumulated since the motor task zeroed them at the start of the run.
C34_TotalIsDistanceOfThisRun ==
    (ev.op = "spectator" /\ ev.from = SP_S2_ESTIMATING
     /\ spec.state = SP_S2_ESTIMATING)
        => sh.total_s_sh = TotalMm(enc["L"].position_counts
                                   + enc["R"].position_counts)


(***************************************************************************)
(* SpecStream: StreamTask resumed at arbitrary times while the other tasks *)
(* set and clear the abort and streaming flags and MotorControlTask        *)
(* publishes samples.                                                      *)
(***************************************************************************)
\* abort and stream_data as UITask and PathPlanningTask put them, and the
\* sample of src/src/motor_task.py lines 229-240
StreamCommands ==
    <<[abort |-> 1], [abort |-> 0], [stream_data |-> 0], [stream_data |-> 1],
      [abort |-> 1, mtr_enable |-> 0, stream_data |-> 0],
      [time_sh |-> 20, left_pos_sh |-> 3, motor_data_ready |-> 1]>>

NextStream ==
    \/ StreamStep
    \/ \E i \in 1..Len(StreamCommands) : SharesPut(StreamCommands[i])

SpecStream == InitMotor /\ [][NextStream]_vars

\* where in tx the END markers and the data frames are
EndsAt == {i \in 1..Len(tx) : tx[i] = TxEnd}
FramesAt == {i \in 1..Len(tx) : tx[i].kind = "frame"}

\* C35: there is a data frame between any two END markers, so a stream is
\* ended once however long abort stays set or streaming stays off; a step
\* of StreamTask in STREAM_DATA that finds abort set or streaming off leaves
\* an END marker behind the last data frame; and a step that finds neither
\* writes no END marker.
C35_OneEndPerStream ==
    /\ \A i, j \in EndsAt :
           i < j => \E k \in FramesAt : i < k /\ k < j
    /\ (ev.op = "stream" /\ ev.from = STR_S2_STREAM_DATA
        /\ (ev.abort # 0 \/ ev.stream_data = 0))
           => \E i \in EndsAt : \A k \in FramesAt : k < i
    /\ (ev.op = "stream" /\ ev.abort = 0 /\ ev.stream_data # 0)
           => \A i \in EndsAt : i <= ev.ntx

\* a stream of at least one frame was ended, and StreamTask stepped again
\* with abort still set or streaming still off
C35_Witness ==
    /\ ev.op = "stream"
    /\ ev.from = STR_S2_STREAM_DATA
    /\ ev.abort # 0 \/ ev.stream_data = 0
    /\ ev.sent_end = 1
    /\ \E i \in EndsAt : \E k \in FramesAt : k < i


\* the StreamTask step just taken wrote a data frame
FrameWritten ==
    /\ ev.op = "stream"
    /\ Len(tx) > ev.ntx
    /\ tx[Len(tx)].kind = "frame"

\* C36: a data frame carries a sample MotorControlTask published in the
\* current run.  The motor task publishes only in RUN and leaves RUN only
\* on an abort, which stops the frames until the next run command; so when
\* a frame is written the motor task is in RUN, and the frame's index is the
\* number of frames written since the stream began.
C36_FramesCarrySamplesOfThisRun ==
    FrameWritten
        => /\ mcState = S2_RUN
           /\ tx[Len(tx)].n = stream.lines_sent - 1


(***************************************************************************)
(* The host sends whole commands, byte by byte; UITask may be resumed      *)
(* between any two bytes (src/ui_task.py lines 121-171, 174-234, 310-313). *)
(***************************************************************************)
CmdMaxRx == 2        \* most bytes waiting in the UART while commands arrive

\* the command bytes the host sends, and the parameter byte of its 'e'
HostChars == {"e", "n", "s"}
EffortParam == "5"

\* the host has sent 'e' and not yet its parameter: 'e' is the last byte
\* waiting, or UITask has taken 'e' out of an otherwise empty UART, or UITask
\* has just processed 'e' with nothing waiting
ParamOwed ==
    \/ rx # <<>> /\ rx[Len(rx)] = "e"
    \/ rx = <<>> /\ ui.state = UI_S2_PROCESS_COMMAND /\ ui.cmd_buf = "e"
    \/ /\ rx = <<>> /\ ev.op = "ui" /\ ev.from = UI_S2_PROCESS_COMMAND
       /\ ev.did = "e" /\ ev.nrx = 0

\* the first byte of a command arrives
HostCommand(c) ==
    /\ Running
    /\ ~ParamOwed
    /\ Len(rx) < CmdMaxRx
    /\ rx' = Append(rx, c)
    /\ ev' = [op |-> "env"]
    /\ UNCHANGED <<now, sh, motor, enc, turned, ctl, bat, adc, mcState, t0,
                   spec, dc, queues, qlog, hist, SteerVars, ui, StreamVars,
                   pp, latch, sim, boot, SchedVars, mainPc, exc>>

\* the parameter byte of an 'e' arrives
HostParam ==
    /\ Running
    /\ ParamOwed
    /\ Len(rx) < CmdMaxRx
    /\ rx' = Append(rx, EffortParam)
    /\ ev' = [op |-> "env"]
    /\ UNCHANGED <<now, sh, motor, enc, turned, ctl, bat, adc, mcState, t0,
                   spec, dc, queues, qlog, hist, SteerVars, ui, StreamVars,
                   pp, latch, sim, boot, SchedVars, mainPc, exc>>

NextCmd ==
    \/ UIStep
    \/ \E c \in HostChars : HostCommand(c)
    \/ HostParam

SpecCmd == InitMotor /\ [][NextCmd]_vars

\* C37: an 'e' command takes effect however its bytes are split across the
\* resumptions of UITask, and a parameter byte is never processed as a command
\* byte: a PROCESS_COMMAND step never has a digit as its command, and after
\* one whose command is 'e' the effort Share holds ten times the parameter
\* and the control mode is 0.
C37_SplitCommandTakesEffect ==
    (ev.op = "ui" /\ ev.from = UI_S2_PROCESS_COMMAND)
        => /\ ~IsDigit(ev.did)
           /\ ev.did = "e"
                => /\ sh.eff = 10 * DigitVal(EffortParam)
                   /\ sh.control_mode = 0


(***************************************************************************)
(* Battery on its own: droop_gain() calls without refresh, refresh() calls *)
(* and a battery voltage that changes between them                         *)
(* (src/battery_droop.py lines 43-61).                                     *)
(***************************************************************************)
\* battery voltages in tenths of a volt, one of them below the 0.5 V check
BatAdc == {3, 52, 60, 65, 72, 78, 90}

\* droop_gain() with refresh left at its default
BatDroopGain ==
    LET r == Battery_droop_gain(bat, FALSE, adc)
    IN  /\ Running
        /\ bat' = r.bat
        /\ ev' = [op |-> "droop_gain", ret |-> r.ret, raised |-> r.raised,
                  before |-> bat]
        /\ UNCHANGED <<now, sh, motor, enc, turned, ctl, adc, mcState, t0,
                       spec, dc, queues, qlog, hist, TaskVars, SchedVars,
                       mainPc, exc>>

NextBat ==
    \/ BatDroopGain
    \/ CLRefresh
    \/ \E v \in BatAdc : AdcChange(v)

SpecBat == InitMotor /\ [][NextBat]_vars

\* C38: droop_gain() without refresh always returns a gain (a number); when
\* a gain was cached before the call it returns that gain and leaves the
\* cached gain and voltage as they were, so no new measurement was taken.
C38_DroopGainCachesAfterFirstCall ==
    ev.op = "droop_gain"
        => /\ ~ev.raised
           /\ ev.ret # None
           /\ ev.before.cached_gain # None
                => (ev.ret = ev.before.cached_gain /\ bat = ev.before)


\* C39: when a resumption of MotorControlTask ends at its yield, both motors
\* are enabled exactly if the FSM is in RUN, and the run-observer Share is 1
\* exactly if the FSM is in RUN; so the two motors are never in different
\* enabled states there.
C39_EnabledIffRun ==
    (ev.op = "motor" /\ Running)
        => /\ \A w \in Wheels : motor[w].enabled <=> mcState = S2_RUN
           /\ sh.run_observer = 1 <=> mcState = S2_RUN

\* a resumption that started in RUN with the motors on and the abort Share
\* set: it ends in WAIT_FOR_ENABLE with both motors off and the run-observer
\* Share cleared, although the enable Share had been set
C39_Witness ==
    /\ ev.op = "motor" /\ Running
    /\ ev.from = S2_RUN /\ ev.abort # 0 /\ ev.enable # 0
    /\ mcState = S1_WAIT_FOR_ENABLE
    /\ \A w \in Wheels : ~motor[w].enabled
    /\ sh.run_observer = 0


(***************************************************************************)
(* One Motor driven by any sequence of set_effort, enable and disable      *)
(* calls (src/src/motor.py lines 30-69).                                   *)
(***************************************************************************)
\* the efforts asked for, some of them outside [-100, 100]
MotEfforts == {0 - 150, 0 - 100, 0 - 40, 0, 60, 100, 150}

MotSetEffort(w, e) ==
    /\ Running
    /\ motor' = [motor EXCEPT ![w] = Motor_set_effort(@, e)]
    /\ ev' = [op |-> "set_effort", w |-> w, before |-> motor[w], arg |-> e]
    /\ UNCHANGED <<now, sh, enc, turned, ctl, bat, adc, mcState, t0, spec, dc,
                   queues, qlog, hist, TaskVars, SchedVars, mainPc, exc>>

MotEnable(w) ==
    /\ Running
    /\ motor' = [motor EXCEPT ![w] = Motor_enable(@)]
    /\ ev' = [op |-> "enable", w |-> w, before |-> motor[w]]
    /\ UNCHANGED <<now, sh, enc, turned, ctl, bat, adc, mcState, t0, spec, dc,
                   queues, qlog, hist, TaskVars, SchedVars, mainPc, exc>>

MotDisable(w) ==
    /\ Running
    /\ motor' = [motor EXCEPT ![w] = Motor_disable(@)]
    /\ ev' = [op |-> "disable", w |-> w, before |-> motor[w]]
    /\ UNCHANGED <<now, sh, enc, turned, ctl, bat, adc, mcState, t0, spec, dc,
                   queues, qlog, hist, TaskVars, SchedVars, mainPc, exc>>

NextMot ==
    \E w \in Wheels :
        \/ \E e \in MotEfforts : MotSetEffort(w, e)
        \/ MotEnable(w)
        \/ MotDisable(w)

SpecMot == InitMotor /\ [][NextMot]_vars

\* C40: after any sequence of enable, disable and set_effort calls a disabled
\* motor has effort 0 and the stored effort is within [-100, 100]; set_effort
\* on a disabled motor, enable on an enabled motor and disable on a disabled
\* motor leave the motor as it was.
C40_MotorCallsKeepInvariants ==
    /\ \A w \in Wheels :
          /\ ~motor[w].enabled => motor[w].effort = 0
          /\ motor[w].effort >= 0 - 100 /\ motor[w].effort <= 100
    /\ (ev.op = "set_effort" /\ ~ev.before.enabled)
          => motor[ev.w] = ev.before
    /\ (ev.op = "enable" /\ ev.before.enabled) => motor[ev.w] = ev.before
    /\ (ev.op = "disable" /\ ~ev.before.enabled) => motor[ev.w] = ev.before

\* enable() called on a motor that is enabled and holds effort 60: the motor
\* still holds 60
C40_Witness ==
    /\ ev.op = "enable" /\ ev.before.enabled /\ ev.before.effort = 60
    /\ motor[ev.w].enabled /\ motor[ev.w].effort = 60

=============================================================================
